---------------------------- MODULE Spec2Model ----------------------------
(***************************************************************************)
(* Model of MegatronLMEncoderDecoderModule                                 *)
(* (nemo/collections/nlp/models/language_modeling/                         *)
(*  megatron_lm_encoder_decoder_model.py).                                 *)
(*                                                                         *)
(* The module is a set of components that do not share state, so each has  *)
(* its own specification over the same variables:                          *)
(*   SpecSched   the microbatch scheduler driven by training_step and      *)
(*               validation_step                                           *)
(*   SpecSync    the gradient synchronisation of training_step             *)
(*   SpecAmp     on_train_batch_end and the trainer's batch loop           *)
(*   SpecDecode  decode and complete                                       *)
(*   SpecBatch   process_micro_batch and process_global_batch              *)
(*   SpecVocab   _vocab_size_with_padding                                  *)
(***************************************************************************)
EXTENDS Integers, Sequences, FiniteSets, TLC

VARIABLES
    \* ---- scheduler
    caller,        \* "training_step", "validation_step" or "test_step"
    numStages,     \* pipeline-parallel world size
    numMicro,      \* microbatches of the global batch
    pc,            \* pc[s]: position of stage s in its schedule
    todo,          \* todo[s]: point-to-point calls still to complete, in order
    issued,        \* issued[s]: forward/backward passes issued, in order
    rcvdAct,       \* rcvdAct[s]: microbatch ids of the activations received
    rcvdGrad,      \* rcvdGrad[s]: microbatch ids of the gradients received
    losses,        \* losses[s]: losses_reduced of stage s
    lossSeed,      \* decides the 'avg' value of each microbatch's loss record
    gradBuf,       \* gradBuf[s]: what the gradient buffers of stage s hold
    collectives,   \* collectives[s]: collective calls the step has issued
    lossMean,      \* lossMean[s]: loss_mean
    events,        \* events[s]: what the step and the hooks after it did, in order
    \* ---- gradient synchronisation
    o2,            \* megatron_amp_o2
    syncPipelined, \* parallel_state.get_pipeline_model_parallel_world_size() > 1
    shareEmb,      \* model.share_word_embeddings
    paramKind,     \* paramKind[p]: dtype and gradient state of parameter p
    grad,          \* grad[proc][p]: param.grad
    grad0,         \* grad as it was when the backward passes ended
    dpBucket,      \* dpBucket[st]: buckets the group of stage st has all-reduced
    embReduced,    \* embReduced[r]: the embedding group of replica r has reduced
    mainGrad,      \* mainGrad[proc]: word_embeddings_weight.main_grad (O2 path)
    mainGrad0,     \* mainGrad as it was when the backward passes ended
    issuedCalls,   \* issuedCalls[proc]: the collectives proc has issued, in order
    stepReturned,  \* the loss broadcast has run: training_step has returned
    \* ---- mixed precision: on_train_batch_end
    precisionPlugin, \* kind of trainer.precision_plugin
    scalerKind,    \* kind of precision_plugin.scaler
    updateSkipped, \* grad_scaler.optimizer_update_skipped: "None", "True", "False"
    autoOpt,       \* lightning_module.automatic_optimization
    lastEpoch,     \* lastEpoch[k]: last_epoch of scheduler k
    lr,            \* lr[k]: learning rate scheduler k has set in its optimizer
    maxSteps,      \* trainer.fit_loop.max_steps
    ampPc,         \* "idle", or "batch_end": on_train_batch_end is due
    before,        \* lastEpoch, lr, maxSteps before the current training step
    hookEntry,     \* updateSkipped as the latest on_train_batch_end found it
    trainSteps,    \* training steps run
    skippedSteps,  \* training steps whose optimizer update was skipped
    accumulated,   \* batches that only accumulated gradients (no optimizer step)
    maxSteps0,     \* trainer.fit_loop.max_steps as configured
    \* ---- decode, complete
    ttg,           \* request['tokens_to_generate']
    predicted,     \* predicted_tokens_dec
    logProbs,      \* log_probs of the latest decoder step
    decSteps,      \* decoder steps performed
    decPc,         \* "start", "loop", "returned", "raised", "completed"
    completion,    \* response['completion']
    rendersSpecials, \* whether tokens_to_text renders special tokens
    \* ---- process_global_batch
    globalBatch,   \* the list of microbatches
    mbIdx,         \* microbatches the loop has processed
    lists,         \* the six *_list
    assembled,     \* the tuple returned
    batchPc,       \* "loop", "returned", "unpacked"
    batch,         \* the names fwd_output_and_loss_func binds the tuple to
    \* ---- _vocab_size_with_padding
    origVocab,     \* orig_vocab_size
    divisibleBy,   \* make_vocab_size_divisible_by
    tpSize,        \* tensor_model_parallel_size
    after,         \* after
    vocabPc,       \* "loop", "returned"
    \* ---- construction, configure_optimizers, configure_gradient_clipping
    precision,     \* cfg.precision, as the literal written in the configuration
    maxStepsCfg,   \* trainer.max_steps: "None" or "set"
    optimizerKind, \* self._optimizer: "unset", "None", "base", "main_params_wrapper"
    setupPc,       \* "new", "constructed", "configured", or the error raised
    ran,           \* kinds of steps that have run on the model
    clipVal,       \* trainer.gradient_clip_val: <<"None">> or <<"value", v>>
    clipSeed,      \* decides the gradients a training step leaves
    rawGrad,       \* rawGrad[p]: gradient of a parameter of the optimizer groups
    masterGrad,    \* masterGrad[p]: gradient of an fp32 master parameter
    gradNorm,      \* the grad_norm logged: <<"None">> or <<"sqrt", n>>
    clipPc         \* "idle", "due" (a training step has left gradients), "done"

schedVars ==
    <<caller, numStages, numMicro, pc, todo, issued, rcvdAct, rcvdGrad, losses,
      lossSeed, gradBuf, collectives, lossMean, events>>

syncVars ==
    <<o2, syncPipelined, shareEmb, paramKind, grad, grad0, dpBucket, embReduced,
      mainGrad, mainGrad0, issuedCalls, stepReturned>>

ampVars ==
    <<precisionPlugin, scalerKind, updateSkipped, autoOpt, lastEpoch, lr, maxSteps,
      ampPc, before, hookEntry, trainSteps, skippedSteps, accumulated, maxSteps0>>

decVars == <<ttg, predicted, logProbs, decSteps, decPc, completion, rendersSpecials>>

batchVars == <<globalBatch, mbIdx, lists, assembled, batchPc, batch>>

vocabVars == <<origVocab, divisibleBy, tpSize, after, vocabPc>>

setupVars ==
    <<precision, maxStepsCfg, optimizerKind, setupPc, ran, clipVal, clipSeed,
      rawGrad, masterGrad, gradNorm, clipPc>>

vars == <<schedVars, syncVars, ampVars, decVars, batchVars, vocabVars, setupVars>>

Min(a, b) == IF a <= b THEN a ELSE b

Last(q) == q[Len(q)]

(***************************************************************************)
(* Bounds of the scheduler model.                                          *)
(***************************************************************************)
MaxStages == 4

MaxMicro == 3

MaxLossSeed == 1

(***************************************************************************)
(* Scheduler.  training_step and validation_step choose the schedule and   *)
(* the forward_only flag; the two schedules themselves are apex's          *)
(* forward_backward_no_pipelining and                                      *)
(* forward_backward_pipelining_without_interleaving, which the file only   *)
(* imports, and are modelled from section 4.2 of the specification.        *)
(***************************************************************************)
Stages == 0 .. (numStages - 1)

ForwardOnlyInTraining == TRUE

\* test_step is validation_step: it returns self.validation_step(batch, batch_idx)
RunsValidationStep == caller \in {"validation_step", "test_step"}

ForwardOnlyNowhere == FALSE

\* forward_only as passed by the caller
ForwardOnly == RunsValidationStep

NeverPipelined == FALSE

\* cfg.get('pipeline_model_parallel_size', 1) > 1
Pipelined == numStages > 1

IsFirstStage(s) == s = 0

IsLastStage(s) == s = numStages - 1

\* warm-up forward passes of stage s: num_stages - stage_index - 1, and never
\* more than there are microbatches
NumWarmup(s) == Min(numStages - s - 1, numMicro)

NumRemaining(s) == numMicro - NumWarmup(s)

NumFwd(s) == Cardinality({j \in 1 .. Len(issued[s]) : issued[s][j][1] = "F"})

NumBwd(s) == Cardinality({j \in 1 .. Len(issued[s]) : issued[s][j][1] = "B"})

LiveOpsOnEveryStage(s, ops) == ops

\* a transfer towards a stage that does not exist is not made
LiveOps(s, ops) ==
    (ops \ (IF IsFirstStage(s) THEN {"recv_fwd", "send_bwd"} ELSE {}))
        \ (IF IsLastStage(s) THEN {"send_fwd", "recv_bwd"} ELSE {})

\* the calls of a list of point-to-point calls that transfer something
Calls(s, batches) ==
    SelectSeq([j \in 1 .. Len(batches) |-> LiveOps(s, batches[j])],
              LAMBDA b : b # {})

StartCallsSendFirst(s) == Calls(s, << {"send_fwd"}, {"recv_fwd"} >>)

\* the calls a stage makes before its first forward pass
StartCalls(s) == Calls(s, << {"recv_fwd"} >>)

\* what follows the k-th forward pass of stage s: the calls, and the next pass
AfterForward(s, k) ==
    IF ~Pipelined
    THEN [calls |-> << >>,
          next |-> IF ~ForwardOnly THEN "bwd"
                   ELSE IF k < numMicro THEN "fwd" ELSE "ret"]
    ELSE IF k <= NumWarmup(s)
    THEN IF k < NumWarmup(s) \/ NumRemaining(s) > 0
         THEN [calls |-> Calls(s, << {"send_fwd"}, {"recv_fwd"} >>), next |-> "fwd"]
         ELSE IF ForwardOnly
         THEN [calls |-> Calls(s, << {"send_fwd"} >>), next |-> "ret"]
         ELSE [calls |-> Calls(s, << {"send_fwd"}, {"recv_bwd"} >>), next |-> "bwd"]
    ELSE IF ForwardOnly
    THEN IF k < numMicro
         THEN [calls |-> Calls(s, << {"send_fwd"}, {"recv_fwd"} >>), next |-> "fwd"]
         ELSE [calls |-> Calls(s, << {"send_fwd"} >>), next |-> "ret"]
    ELSE [calls |-> Calls(s, << {"send_fwd", "recv_bwd"} >>), next |-> "bwd"]

\* what follows the k-th backward pass of stage s
AfterBackward(s, k) ==
    IF ~Pipelined
    THEN [calls |-> << >>, next |-> IF k < numMicro THEN "fwd" ELSE "ret"]
    ELSE IF k < NumRemaining(s)
    THEN [calls |-> Calls(s, << {"send_bwd", "recv_fwd"} >>), next |-> "fwd"]
    ELSE IF k < numMicro
    THEN [calls |-> Calls(s, << {"send_bwd"}, {"recv_bwd"} >>), next |-> "bwd"]
    ELSE [calls |-> Calls(s, << {"send_bwd"} >>), next |-> "ret"]

\* the microbatches stage s has issued passes of one kind for, in issue order
Issued(s, kind) ==
    LET passes == SelectSeq(issued[s], LAMBDA e : e[1] = kind)
    IN [j \in 1 .. Len(passes) |-> passes[j][2]]

\* the microbatches whose forward pass awaits its backward pass, oldest first
\* (the schedule's lists of kept input and output tensors)
PendingBackward(s) ==
    SelectSeq(Issued(s, "F"),
              LAMBDA mb : \A j \in 1 .. Len(Issued(s, "B")) : Issued(s, "B")[j] # mb)

NewestPending(s) == Last(PendingBackward(s))

\* the backward pass takes the oldest kept forward pass
NextBackward(s) == Head(PendingBackward(s))

RecordsLossOnEveryStage(s) == TRUE

\* forward_step records a loss only on the last pipeline stage
RecordsLoss(s) == IsLastStage(s)

\* the call at the head of a list has completed its transfer op
Completed(q, op) ==
    IF Head(q) = {op} THEN Tail(q) ELSE << Head(q) \ {op} >> \o Tail(q)

\* self._optimizer.zero_grad() opens training_step only
ZeroesGrad == caller = "training_step"

\* gradient buffers: left by an earlier step, or zeroed and then accumulated
\* into by the backward passes of the microbatches in acc
StaleGrad == [stale |-> TRUE, acc |-> {}]

ZeroGrad == [stale |-> FALSE, acc |-> {}]

Accumulated(buf, mb) == [buf EXCEPT !.acc = @ \cup {mb}]

\* loss_reduced['avg'] of the record of microbatch mb
LossAvg(mb) == 1 + ((lossSeed + (mb * mb)) % 3)

\* loss_tensors_list
LossTensors(records) == [j \in 1 .. Len(records) |-> LossAvg(records[j])]

RECURSIVE SumSeq(_)
SumSeq(q) == IF q = << >> THEN 0 ELSE Head(q) + SumSeq(Tail(q))

\* loss_mean before training_step / validation_step has computed it
NoLoss == [kind |-> "unset", num |-> 0, den |-> 1]

\* torch.tensor(0.0)
ZeroLoss == [kind |-> "tensor", num |-> 0, den |-> 1]

\* the [] validation_step returns off the last pipeline stage
EmptyList == [kind |-> "list", num |-> 0, den |-> 1]

SumOfLosses(tensors) == [kind |-> "tensor", num |-> SumSeq(tensors), den |-> 1]

\* torch.concat(loss_tensors_list).mean(), as the fraction num / den
MeanOfLosses(tensors) == [kind |-> "tensor", num |-> SumSeq(tensors), den |-> Len(tensors)]

\* loss_mean of a step: the mean of the records, or torch.tensor(0.0) in
\* training_step and [] in validation_step when there are none
StepLoss(tensors) ==
    IF tensors # << >> THEN MeanOfLosses(tensors)
    ELSE IF caller = "training_step" THEN ZeroLoss
    ELSE EmptyList

\* the gradient all-reduces training_step issues after the schedule
GradientCollectives(s) ==
    IF caller # "training_step" \/ o2 THEN << >>
    ELSE <<"allreduce_gradients">>
         \o (IF numStages > 1 /\ (IsFirstStage(s) \/ IsLastStage(s)) /\ shareEmb
             THEN <<"allreduce_embedding">> ELSE << >>)

\* get_last_rank(): the process of the highest rank, which is on the last
\* pipeline stage
GetLastRank == numStages - 1

BroadcastNothing(values, src, me) == values[me]

\* torch.distributed.broadcast: every process ends with the value of src
Broadcast(values, src, me) == values[src]

SchedFrame == UNCHANGED <<syncVars, ampVars, decVars, batchVars, vocabVars, setupVars>>

SchedInit ==
    /\ caller \in {"training_step", "validation_step", "test_step"}
    /\ numStages \in 1 .. MaxStages
    /\ numMicro \in 1 .. MaxMicro
    /\ pc = [s \in Stages |-> "start"]
    /\ todo = [s \in Stages |-> << >>]
    /\ issued = [s \in Stages |-> << >>]
    /\ rcvdAct = [s \in Stages |-> << >>]
    /\ rcvdGrad = [s \in Stages |-> << >>]
    /\ losses = [s \in Stages |-> << >>]
    /\ lossSeed \in 0 .. MaxLossSeed
    /\ gradBuf = [s \in Stages |-> StaleGrad]
    /\ collectives = [s \in Stages |-> << >>]
    /\ lossMean = [s \in Stages |-> NoLoss]
    /\ events = [s \in Stages |-> << >>]

Start(s) ==
    /\ pc[s] = "start"
    /\ pc' = [pc EXCEPT ![s] = "fwd"]
    /\ todo' = [todo EXCEPT ![s] = IF Pipelined THEN StartCalls(s) ELSE << >>]
    /\ gradBuf' = [gradBuf EXCEPT ![s] = IF ZeroesGrad THEN ZeroGrad ELSE @]
    /\ UNCHANGED <<caller, numStages, numMicro, issued, rcvdAct, rcvdGrad, losses>>
    /\ UNCHANGED <<lossSeed, collectives, lossMean>>
    /\ events' = [events EXCEPT ![s] =
          (IF ZeroesGrad THEN <<"zero_grad">> ELSE << >>) \o <<"process_global_batch">>]

Forward(s) ==
    /\ pc[s] = "fwd"
    /\ todo[s] = << >>
    /\ LET mb == NumFwd(s)
           follow == AfterForward(s, mb + 1)
       IN /\ issued' = [issued EXCEPT ![s] = Append(@, <<"F", mb>>)]
          /\ losses' = [losses EXCEPT ![s] = IF RecordsLoss(s) THEN Append(@, mb) ELSE @]
          /\ todo' = [todo EXCEPT ![s] = follow.calls]
          /\ pc' = [pc EXCEPT ![s] = follow.next]
    /\ UNCHANGED <<caller, numStages, numMicro, rcvdAct, rcvdGrad>>
    /\ UNCHANGED <<lossSeed, gradBuf, collectives, lossMean>>
    /\ events' = [events EXCEPT ![s] = Append(@, "forward")]

Backward(s) ==
    /\ pc[s] = "bwd"
    /\ todo[s] = << >>
    /\ LET mb == NextBackward(s)
           follow == AfterBackward(s, NumBwd(s) + 1)
       IN /\ issued' = [issued EXCEPT ![s] = Append(@, <<"B", mb>>)]
          /\ gradBuf' = [gradBuf EXCEPT ![s] = Accumulated(@, mb)]
          /\ todo' = [todo EXCEPT ![s] = follow.calls]
          /\ pc' = [pc EXCEPT ![s] = follow.next]
    /\ UNCHANGED <<caller, numStages, numMicro, rcvdAct, rcvdGrad, losses>>
    /\ UNCHANGED <<lossSeed, collectives, lossMean>>
    /\ events' = [events EXCEPT ![s] = Append(@, "backward")]

\* stage s sends the activation of its latest forward pass to stage s + 1
TransferActivation(s) ==
    /\ s + 1 \in Stages
    /\ todo[s] # << >> /\ "send_fwd" \in Head(todo[s])
    /\ todo[s + 1] # << >> /\ "recv_fwd" \in Head(todo[s + 1])
    /\ todo' = [todo EXCEPT ![s] = Completed(@, "send_fwd"),
                            ![s + 1] = Completed(@, "recv_fwd")]
    /\ rcvdAct' = [rcvdAct EXCEPT ![s + 1] = Append(@, NumFwd(s) - 1)]
    /\ UNCHANGED <<caller, numStages, numMicro, pc, issued, rcvdGrad, losses>>
    /\ UNCHANGED <<lossSeed, gradBuf, collectives, lossMean>>
    /\ UNCHANGED events

\* stage s sends the input gradient of its latest backward pass to stage s - 1
TransferGradient(s) ==
    /\ s - 1 \in Stages
    /\ todo[s] # << >> /\ "send_bwd" \in Head(todo[s])
    /\ todo[s - 1] # << >> /\ "recv_bwd" \in Head(todo[s - 1])
    /\ todo' = [todo EXCEPT ![s] = Completed(@, "send_bwd"),
                            ![s - 1] = Completed(@, "recv_bwd")]
    /\ rcvdGrad' = [rcvdGrad EXCEPT ![s - 1] = Append(@, NumBwd(s) - 1)]
    /\ UNCHANGED <<caller, numStages, numMicro, pc, issued, rcvdAct, losses>>
    /\ UNCHANGED <<lossSeed, gradBuf, collectives, lossMean>>
    /\ UNCHANGED events

\* the schedule returns losses_reduced to training_step / validation_step,
\* which computes loss_mean; validation_step returns it, training_step issues
\* its gradient all-reduces and comes to the broadcast of loss_mean
Return(s) ==
    /\ pc[s] = "ret"
    /\ todo[s] = << >>
    /\ lossMean' = [lossMean EXCEPT ![s] = StepLoss(LossTensors(losses[s]))]
    /\ collectives' = [collectives EXCEPT ![s] = @ \o GradientCollectives(s)]
    /\ pc' = [pc EXCEPT ![s] = IF caller = "training_step" THEN "broadcast" ELSE "done"]
    /\ UNCHANGED <<caller, numStages, numMicro, todo, issued, rcvdAct, rcvdGrad, losses>>
    /\ UNCHANGED <<lossSeed, gradBuf>>
    /\ events' = [events EXCEPT ![s] = @ \o GradientCollectives(s)]

\* torch.distributed.broadcast(loss_mean, get_last_rank()): every process of
\* the step takes part; training_step then logs and returns loss_mean
BroadcastLoss ==
    /\ \A s \in Stages : pc[s] = "broadcast"
    /\ lossMean' = [s \in Stages |-> Broadcast(lossMean, GetLastRank, s)]
    /\ collectives' = [s \in Stages |-> Append(collectives[s], "broadcast")]
    /\ pc' = [s \in Stages |-> "done"]
    /\ UNCHANGED <<caller, numStages, numMicro, todo, issued, rcvdAct, rcvdGrad, losses>>
    /\ UNCHANGED <<lossSeed, gradBuf>>
    /\ events' = [s \in Stages |-> Append(events[s], "broadcast")]

\* the trainer has called hook on stage s since training_step returned
HookCalled(s, hook) == \E k \in 1 .. Len(events[s]) : events[s][k] = hook

ZeroedByHook(buf) == ZeroGrad

\* optimizer_zero_grad: return
AfterOptimizerZeroGrad(buf) == buf

\* backward: return
AfterBackwardHook(buf) == buf

\* the trainer calls the optimizer_zero_grad hook after training_step
OptimizerZeroGrad(s) ==
    /\ caller = "training_step"
    /\ pc[s] = "done"
    /\ ~HookCalled(s, "optimizer_zero_grad")
    /\ gradBuf' = [gradBuf EXCEPT ![s] = AfterOptimizerZeroGrad(@)]
    /\ events' = [events EXCEPT ![s] = Append(@, "optimizer_zero_grad")]
    /\ UNCHANGED <<caller, numStages, numMicro, pc, todo, issued, rcvdAct, rcvdGrad, losses>>
    /\ UNCHANGED <<lossSeed, collectives, lossMean>>

\* the trainer calls the backward hook next, and then steps the optimizer
BackwardHook(s) ==
    /\ caller = "training_step"
    /\ pc[s] = "done"
    /\ HookCalled(s, "optimizer_zero_grad")
    /\ ~HookCalled(s, "backward_hook")
    /\ gradBuf' = [gradBuf EXCEPT ![s] = AfterBackwardHook(@)]
    /\ events' = [events EXCEPT ![s] = Append(@, "backward_hook")]
    /\ UNCHANGED <<caller, numStages, numMicro, pc, todo, issued, rcvdAct, rcvdGrad, losses>>
    /\ UNCHANGED <<lossSeed, collectives, lossMean>>

SchedNext ==
    \/ \E s \in Stages : Start(s) /\ SchedFrame
    \/ \E s \in Stages : Forward(s) /\ SchedFrame
    \/ \E s \in Stages : Backward(s) /\ SchedFrame
    \/ \E s \in Stages : TransferActivation(s) /\ SchedFrame
    \/ \E s \in Stages : TransferGradient(s) /\ SchedFrame
    \/ \E s \in Stages : Return(s) /\ SchedFrame
    \/ BroadcastLoss /\ SchedFrame
    \/ \E s \in Stages : OptimizerZeroGrad(s) /\ SchedFrame
    \/ \E s \in Stages : BackwardHook(s) /\ SchedFrame

SchedDone == \A s \in Stages : pc[s] = "done"

(***************************************************************************)
(* Gradient synchronisation of training_step: allreduce_gradients over     *)
(* each data-parallel group, then the all-reduce of the shared word        *)
(* embedding's gradient over each embedding group (first and last stage).  *)
(* A process is <<stage, replica>>.  A gradient is a tensor of rationals   *)
(* with a common denominator: [has, num, den]; has = FALSE is grad = None. *)
(***************************************************************************)
\* Bounds of the synchronisation model.
NReplicas == 2

NParams == 2

MaxSeed == 1

Replicas == 1 .. NReplicas

Params == 1 .. NParams

\* the word embedding is the first parameter of the first and of the last stage
EmbParam == 1

SyncStages == IF syncPipelined THEN {"first", "middle", "last"} ELSE {"only"}

SyncProcs == SyncStages \X Replicas

StageIx(st) == CASE st = "first" -> 1 [] st = "middle" -> 2 [] st = "last" -> 3 [] OTHER -> 0

\* "grad16"/"grad32": requires_grad, grad set, dtype half/float;
\* "nograd": requires_grad, grad None; "frozen": no requires_grad, grad None;
\* "stale": no requires_grad, grad left over from an earlier step
ParamKinds == {"grad16", "grad32", "nograd", "frozen", "stale"}

RequiresGrad(p) == paramKind[p] \in {"grad16", "grad32", "nograd"}

\* param.data.type()
Dtype(p) == IF paramKind[p] = "grad16" THEN "torch.cuda.HalfTensor" ELSE "torch.cuda.FloatTensor"

Numel(p) == p

NoneGrad == [has |-> FALSE, num |-> << >>, den |-> 1]

\* the gradients the backward passes leave: deterministic in a seed
SeededGrad(seed, st, r, p) ==
    [has |-> TRUE,
     num |-> [j \in 1 .. Numel(p) |-> ((seed + 1) * 3 * r + 5 * p + 2 * j + StageIx(st)) % 7],
     den |-> 1]

InitialGrad(seed, kinds, st, r, p) ==
    CASE kinds[p] \in {"grad16", "grad32"} -> SeededGrad(seed, st, r, p)
      [] kinds[p] = "stale" -> SeededGrad(seed, st, 0, p)
      [] OTHER -> NoneGrad

\* parallel_state.get_data_parallel_world_size()
DataParallelWorldSize == NReplicas

RECURSIVE SumNat(_, _)
SumNat(f, S) == IF S = {} THEN 0 ELSE LET x == CHOOSE y \in S : TRUE IN f[x] + SumNat(f, S \ {x})

RECURSIVE Flatten(_)
\* torch._utils._flatten_dense_tensors: the elements of the tensors, in order
Flatten(tensors) ==
    IF tensors = << >> THEN << >> ELSE Head(tensors) \o Flatten(Tail(tensors))

RECURSIVE Unflatten(_, _)
\* torch._utils._unflatten_dense_tensors: flat cut into pieces of the given sizes
Unflatten(flat, sizes) ==
    IF sizes = << >> THEN << >>
    ELSE << SubSeq(flat, 1, Head(sizes)) >>
             \o Unflatten(SubSeq(flat, Head(sizes) + 1, Len(flat)), Tail(sizes))

InBucketAnyGrad(proc, p) == grad[proc][p].has

\* for param in self.parameters(): if param.requires_grad and param.grad is not None
InBucket(proc, p) == RequiresGrad(p) /\ grad[proc][p].has

\* buckets[tp]: the bucketed parameters of dtype tp, in parameter order
Bucket(proc, tp) ==
    SelectSeq([p \in Params |-> p], LAMBDA p : InBucket(proc, p) /\ Dtype(p) = tp)

BucketKeysInReplicaOrder(proc) ==
    LET bucketed == SelectSeq([p \in Params |-> p], LAMBDA p : InBucket(proc, p))
        first(j) == \A i \in 1 .. (j - 1) : Dtype(bucketed[i]) # Dtype(bucketed[j])
        idx == SelectSeq([j \in 1 .. Len(bucketed) |-> j], first)
    IN [k \in 1 .. Len(idx) |->
          Dtype(bucketed[idx[IF proc[2] = 1 THEN k ELSE Len(idx) + 1 - k]])]

\* the keys of buckets, in the order they were inserted
BucketKeys(proc) ==
    LET bucketed == SelectSeq([p \in Params |-> p], LAMBDA p : InBucket(proc, p))
        first(j) == \A i \in 1 .. (j - 1) : Dtype(bucketed[i]) # Dtype(bucketed[j])
        idx == SelectSeq([j \in 1 .. Len(bucketed) |-> j], first)
    IN [k \in 1 .. Len(idx) |-> Dtype(bucketed[idx[k]])]

DivideByNothing(t, n) == t

\* coalesced /= n
DivideBy(t, n) == [t EXCEPT !.den = @ * n]

\* coalesced = flatten(grads); coalesced /= world size
Coalesced(proc, tp) ==
    LET b == Bucket(proc, tp)
    IN DivideBy([has |-> TRUE,
                 num |-> Flatten([i \in 1 .. Len(b) |-> grad[proc][b[i]].num]),
                 den |-> 1],
                DataParallelWorldSize)

\* torch.distributed.all_reduce(t, group): what member me holds afterwards,
\* the elementwise sum of the members' tensors
AllReduceLocal(t, members, me) == t[me]

AllReduce(t, members, me) ==
    [has |-> TRUE,
     num |-> [j \in 1 .. Len(t[me].num) |-> SumNat([m \in members |-> t[m].num[j]], members)],
     den |-> t[me].den]

\* the gradients of proc after bucket tp was all-reduced and copied back
CopiedBack(proc, tp, synced) ==
    LET b == Bucket(proc, tp)
        pieces == Unflatten(synced.num, [i \in 1 .. Len(b) |-> Len(grad[proc][b[i]].num)])
    IN [p \in Params |->
          IF \E i \in 1 .. Len(b) : b[i] = p
          THEN LET i == CHOOSE i \in 1 .. Len(b) : b[i] = p
               IN [has |-> TRUE, num |-> pieces[i], den |-> synced.den]
          ELSE grad[proc][p]]

\* if not self.megatron_amp_o2: self.allreduce_gradients()
RunsAllReduceGradients == ~o2

ReducesEmbeddingOnAnyPath(proc) ==
    /\ syncPipelined
    /\ proc[1] \in {"first", "last"}
    /\ shareEmb

\* the condition under which training_step all-reduces the embedding gradient
ReducesEmbedding(proc) ==
    /\ ~o2
    /\ syncPipelined
    /\ proc[1] \in {"first", "last"}
    /\ shareEmb

DpDone(st) == dpBucket[st] = Len(BucketKeys(<<st, 1>>))

\* a collective as a process issues it: the function that issues it, the
\* operation, the process group and the tensor
Call(by, op, group, tensor) == [by |-> by, op |-> op, group |-> group, tensor |-> tensor]

\* the condition under which allreduce_first_last_embeddings reduces:
\* pipeline world size > 1, first or last stage, shared word embeddings
EntersFirstLastEmbeddings(proc) ==
    /\ syncPipelined
    /\ proc[1] \in {"first", "last"}
    /\ shareEmb

\* grad = word_embeddings_weight.main_grad if self.megatron_amp_o2 else .grad
FirstLastEmbeddingTensor == IF o2 THEN "main_grad" ELSE "grad"

FirstLastEmbeddingGrad(proc) == IF o2 THEN mainGrad[proc] ELSE grad[proc][EmbParam]

SyncFrame == UNCHANGED <<schedVars, ampVars, decVars, batchVars, vocabVars, setupVars>>

SyncInit ==
    /\ o2 \in BOOLEAN
    /\ syncPipelined \in BOOLEAN
    /\ shareEmb \in BOOLEAN
    /\ paramKind \in [Params -> ParamKinds]
    /\ shareEmb => paramKind[EmbParam] \in {"grad16", "grad32"}
    /\ \E seed \in 0 .. MaxSeed :
          grad = [proc \in SyncProcs |->
                    [p \in Params |-> InitialGrad(seed, paramKind, proc[1], proc[2], p)]]
    /\ grad0 = grad
    /\ dpBucket = [st \in SyncStages |-> 0]
    /\ embReduced = [r \in Replicas |-> FALSE]
    /\ mainGrad = [proc \in SyncProcs |-> IF o2 THEN grad[proc][EmbParam] ELSE NoneGrad]
    /\ mainGrad0 = mainGrad
    /\ issuedCalls = [proc \in SyncProcs |-> << >>]
    /\ stepReturned = FALSE

\* one bucket of allreduce_gradients, on all members of the group of stage st
AllReduceBucket(st) ==
    /\ RunsAllReduceGradients
    /\ ~DpDone(st)
    /\ LET members == {st} \X Replicas
           tp == BucketKeys(<<st, 1>>)[dpBucket[st] + 1]
           coalesced == [m \in members |-> Coalesced(m, tp)]
       IN /\ \A m \in members : dpBucket[st] < Len(BucketKeys(m))
          /\ grad' = [proc \in SyncProcs |->
                        IF proc \in members
                        THEN CopiedBack(proc, tp, AllReduce(coalesced, members, proc))
                        ELSE grad[proc]]
          /\ issuedCalls' = [proc \in SyncProcs |->
                IF proc \in members
                THEN Append(issuedCalls[proc],
                            Call("training_step", "all_reduce", "data_parallel",
                                 BucketKeys(proc)[dpBucket[st] + 1]))
                ELSE issuedCalls[proc]]
    /\ dpBucket' = [dpBucket EXCEPT ![st] = @ + 1]
    /\ UNCHANGED <<o2, syncPipelined, shareEmb, paramKind, grad0, embReduced>>
    /\ UNCHANGED <<mainGrad, mainGrad0, stepReturned>>

\* the all-reduce of word_embeddings_weight.grad over the embedding group of
\* replica r, once both members have left allreduce_gradients
AllReduceEmbedding(r) ==
    /\ ~embReduced[r]
    /\ LET members == {<<"first", r>>, <<"last", r>>}
       IN /\ members \subseteq SyncProcs
          /\ \A m \in members :
                ReducesEmbedding(m) /\ (RunsAllReduceGradients => DpDone(m[1]))
          /\ LET mine == [m \in members |-> grad[m][EmbParam]]
             IN grad' = [proc \in SyncProcs |->
                           IF proc \in members
                           THEN [grad[proc] EXCEPT ![EmbParam] = AllReduce(mine, members, proc)]
                           ELSE grad[proc]]
          /\ issuedCalls' = [proc \in SyncProcs |->
                IF proc \in members
                THEN Append(issuedCalls[proc],
                            Call("training_step", "all_reduce", "embedding", "grad"))
                ELSE issuedCalls[proc]]
    /\ embReduced' = [embReduced EXCEPT ![r] = TRUE]
    /\ UNCHANGED <<o2, syncPipelined, shareEmb, paramKind, grad0, dpBucket>>
    /\ UNCHANGED <<mainGrad, mainGrad0, stepReturned>>

\* the synchronisation of one training step has run on every process
SyncRan ==
    /\ RunsAllReduceGradients
    /\ \A st \in SyncStages : DpDone(st)
    /\ \A proc \in SyncProcs : ReducesEmbedding(proc) => embReduced[proc[2]]

\* proc has left the gradient synchronisation of training_step
LeftSynchronisation(proc) ==
    /\ RunsAllReduceGradients => dpBucket[proc[1]] = Len(BucketKeys(proc))
    /\ ReducesEmbedding(proc) => embReduced[proc[2]]

\* torch.distributed.broadcast(loss_mean, get_last_rank()): a collective of
\* all processes, after which training_step logs and returns
BroadcastLossMean ==
    /\ ~stepReturned
    /\ \A proc \in SyncProcs : LeftSynchronisation(proc)
    /\ issuedCalls' = [proc \in SyncProcs |->
          Append(issuedCalls[proc], Call("training_step", "broadcast", "world", "loss_mean"))]
    /\ stepReturned' = TRUE
    /\ UNCHANGED <<o2, syncPipelined, shareEmb, paramKind, grad, grad0, dpBucket, embReduced>>
    /\ UNCHANGED <<mainGrad, mainGrad0>>

\* proc has called allreduce_first_last_embeddings since the training step
CalledFirstLastEmbeddings(proc) ==
    \E k \in 1 .. Len(issuedCalls[proc]) :
        issuedCalls[proc][k].by = "allreduce_first_last_embeddings"

\* allreduce_first_last_embeddings, called after a training step on the two
\* members of the embedding group of replica r: it all-reduces
\* word_embeddings_weight.main_grad on the O2 path, and .grad otherwise
AllReduceFirstLastEmbeddings(r) ==
    /\ stepReturned
    /\ LET members == {<<"first", r>>, <<"last", r>>}
       IN /\ members \subseteq SyncProcs
          /\ \A m \in members :
                /\ EntersFirstLastEmbeddings(m)
                /\ ~CalledFirstLastEmbeddings(m)
          /\ LET mine == [m \in members |-> FirstLastEmbeddingGrad(m)]
                 summed == [m \in members |-> AllReduce(mine, members, m)]
             IN /\ grad' = [proc \in SyncProcs |->
                              IF proc \in members /\ ~o2
                              THEN [grad[proc] EXCEPT ![EmbParam] = summed[proc]]
                              ELSE grad[proc]]
                /\ mainGrad' = [proc \in SyncProcs |->
                                  IF proc \in members /\ o2 THEN summed[proc]
                                  ELSE mainGrad[proc]]
          /\ issuedCalls' = [proc \in SyncProcs |->
                IF proc \in members
                THEN Append(issuedCalls[proc],
                            Call("allreduce_first_last_embeddings", "all_reduce",
                                 "embedding", FirstLastEmbeddingTensor))
                ELSE issuedCalls[proc]]
    /\ UNCHANGED <<o2, syncPipelined, shareEmb, paramKind, grad0, dpBucket, embReduced>>
    /\ UNCHANGED <<mainGrad0, stepReturned>>

SyncNext ==
    \/ \E st \in SyncStages : AllReduceBucket(st) /\ SyncFrame
    \/ \E r \in Replicas : AllReduceEmbedding(r) /\ SyncFrame
    \/ BroadcastLossMean /\ SyncFrame
    \/ \E r \in Replicas : AllReduceFirstLastEmbeddings(r) /\ SyncFrame

(***************************************************************************)
(* Mixed precision.  The trainer runs a training step (the loss scaler     *)
(* steps the optimizer or skips the step, the trainer steps the            *)
(* schedulers) and then calls on_train_batch_end.                          *)
(***************************************************************************)
\* Bounds of the mixed-precision model.
MaxSchedulers == 2

MaxBudget == 2

MaxSkips == 2

MaxAccumulated == 2

AmpFrame == UNCHANGED <<schedVars, syncVars, decVars, batchVars, vocabVars, setupVars>>

Schedulers == 1 .. Len(lastEpoch)

\* the learning rate a scheduler sets at step e of its schedule
LrAt(e) == <<"lr_at", e>>

\* isinstance(precision_plugin, NativeMixedPrecisionPlugin) and
\* isinstance(precision_plugin.scaler, GradScaler)
HasGradScaler == precisionPlugin = "native_amp" /\ scalerKind = "GradScaler"

SeesFlagOfAnyValue == HasGradScaler /\ updateSkipped # "None"

\* grad_scaler.optimizer_update_skipped is not None and ... is True
SeesSkippedUpdate == HasGradScaler /\ updateSkipped = "True"

\* if not schedulers or not automatic_optimization: return
ReturnsEarly == Len(lastEpoch) = 0 \/ ~autoOpt

RewoundByOne(e) == (e - 1) + 1

\* scheduler.last_epoch -= 2; scheduler.step()
Rewound(e) == (e - 2) + 1

\* self.trainer.fit_loop.max_steps + 1
RaisedBudget(n) == n + 1

KeptFlag == "True"

\* grad_scaler.optimizer_update_skipped = None
ClearedFlag == "None"

AmpInit ==
    /\ precisionPlugin \in {"native_amp", "other", "none"}
    /\ scalerKind \in {"GradScaler", "other", "none"}
    /\ updateSkipped = "None"
    /\ autoOpt \in BOOLEAN
    /\ \E n \in 0 .. MaxSchedulers : lastEpoch = [k \in 1 .. n |-> 0]
    /\ lr = [k \in Schedulers |-> LrAt(0)]
    /\ maxSteps \in 1 .. MaxBudget
    /\ ampPc = "idle"
    /\ before = [lastEpoch |-> lastEpoch, lr |-> lr, maxSteps |-> maxSteps]
    /\ hookEntry = "None"
    /\ trainSteps = 0
    /\ skippedSteps = 0
    /\ accumulated = 0
    /\ maxSteps0 = maxSteps

\* one training step of the trainer's loop, up to the on_train_batch_end hook:
\* the scaler's optimizer step finds an overflow or not, and the trainer steps
\* the schedulers (under automatic optimization)
TrainBatch(overflow) ==
    /\ ampPc = "idle"
    /\ trainSteps < maxSteps
    /\ overflow => skippedSteps < MaxSkips
    /\ before' = [lastEpoch |-> lastEpoch, lr |-> lr, maxSteps |-> maxSteps]
    /\ updateSkipped' = IF scalerKind = "GradScaler"
                        THEN (IF overflow THEN "True" ELSE "False")
                        ELSE updateSkipped
    /\ skippedSteps' = IF overflow THEN skippedSteps + 1 ELSE skippedSteps
    /\ lastEpoch' = IF autoOpt THEN [k \in Schedulers |-> lastEpoch[k] + 1] ELSE lastEpoch
    /\ lr' = IF autoOpt THEN [k \in Schedulers |-> LrAt(lastEpoch[k] + 1)] ELSE lr
    /\ trainSteps' = trainSteps + 1
    /\ ampPc' = "batch_end"
    /\ UNCHANGED <<precisionPlugin, scalerKind, autoOpt, maxSteps, hookEntry>>
    /\ UNCHANGED <<accumulated, maxSteps0>>

\* a batch of the trainer's loop that only accumulates gradients: no optimizer
\* step, so the scaler's flag and the schedulers stay as they are; the
\* on_train_batch_end hook runs all the same
AccumulateBatch ==
    /\ ampPc = "idle"
    /\ trainSteps < maxSteps
    /\ accumulated < MaxAccumulated
    /\ before' = [lastEpoch |-> lastEpoch, lr |-> lr, maxSteps |-> maxSteps]
    /\ accumulated' = accumulated + 1
    /\ ampPc' = "batch_end"
    /\ UNCHANGED <<precisionPlugin, scalerKind, updateSkipped, autoOpt, lastEpoch, lr,
                   maxSteps, hookEntry, trainSteps, skippedSteps, maxSteps0>>

OnTrainBatchEnd ==
    /\ ampPc = "batch_end"
    /\ hookEntry' = updateSkipped
    /\ IF SeesSkippedUpdate /\ ~ReturnsEarly
       THEN /\ lastEpoch' = [k \in Schedulers |-> Rewound(lastEpoch[k])]
            /\ lr' = [k \in Schedulers |-> LrAt(Rewound(lastEpoch[k]))]
            /\ maxSteps' = RaisedBudget(maxSteps)
            /\ updateSkipped' = ClearedFlag
       ELSE UNCHANGED <<lastEpoch, lr, maxSteps, updateSkipped>>
    /\ ampPc' = "idle"
    /\ UNCHANGED <<precisionPlugin, scalerKind, autoOpt, before, trainSteps, skippedSteps>>
    /\ UNCHANGED <<accumulated, maxSteps0>>

AmpNext ==
    \/ \E overflow \in BOOLEAN : TrainBatch(overflow) /\ AmpFrame
    \/ AccumulateBatch /\ AmpFrame
    \/ OnTrainBatchEnd /\ AmpFrame

(***************************************************************************)
(* decode and complete.  Token ids are named; the model's choice of the    *)
(* next token is any id of the vocabulary.  A log-probability is named by  *)
(* the decoder step whose token it belongs to.                             *)
(***************************************************************************)
\* Bound of the decoder model.
MaxTokens == 5

DecFrame == UNCHANGED <<schedVars, syncVars, ampVars, batchVars, vocabVars, setupVars>>

BosId == "bos"

EosId == "eos"

PadId == "pad"

Vocab == {BosId, EosId, PadId, "a"}

NoCompletion == [ids |-> << >>, tokens |-> << >>, text |-> << >>]

\* tokenizer.ids_to_tokens
IdsToTokens(ids) == [j \in 1 .. Len(ids) |-> <<"token", ids[j]>>]

\* tokenizer.tokens_to_text: the text is the tokens it is made of; a tokenizer
\* may or may not render the special tokens
TokensToText(tokens) ==
    SelectSeq(tokens, LAMBDA tk : rendersSpecials \/ tk[2] \notin {BosId, EosId, PadId})

\* list.index
IndexOf(q, x) == CHOOSE j \in 1 .. Len(q) : q[j] = x /\ \A i \in 1 .. (j - 1) : q[i] # x

Contains(q, x) == \E j \in 1 .. Len(q) : q[j] = x

\* list(zip(a, b, c))
Zip3(a, b, c) == [j \in 1 .. Min(Len(a), Min(Len(b), Len(c))) |-> <<a[j], b[j], c[j]>>]

TrimmedKeepingEos(ids) ==
    IF Contains(ids, EosId)
    THEN SubSeq(ids, 1, IndexOf(ids, EosId))
    ELSE SelectSeq(ids, LAMBDA id : id # PadId)

\* the ids complete keeps of the decoded sequence
Trimmed(ids) ==
    IF Contains(ids, EosId)
    THEN SubSeq(ids, 1, IndexOf(ids, EosId) - 1)
    ELSE SelectSeq(ids, LAMBDA id : id # PadId)

NeverBreaks(tok) == FALSE

\* if token_ids[:, -1] == self.tokenizer.eos_id: break
Breaks(tok) == tok = EosId

DecInit ==
    /\ ttg \in 0 .. MaxTokens
    /\ predicted = << >>
    /\ logProbs = << >>
    /\ decSteps = 0
    /\ decPc = "start"
    /\ completion = NoCompletion
    /\ rendersSpecials \in BOOLEAN

\* decode up to the loop: the encoder pass and the initial decoder input.
\* With no iteration to run, the return reads log_probs, which was never bound.
DecodeStart ==
    /\ decPc = "start"
    /\ predicted' = << BosId >>
    /\ decPc' = IF ttg > 0 THEN "loop" ELSE "raised"
    /\ UNCHANGED <<ttg, logProbs, decSteps, completion, rendersSpecials>>

\* one iteration of the loop of decode
DecodeStep(tok) ==
    /\ decPc = "loop"
    /\ predicted' = Append(predicted, tok)
    /\ logProbs' = [j \in 1 .. Len(predicted) |-> j]
    /\ decSteps' = decSteps + 1
    /\ decPc' = IF Breaks(tok) \/ decSteps + 1 = ttg THEN "returned" ELSE "loop"
    /\ UNCHANGED <<ttg, completion, rendersSpecials>>

\* complete, after decode has returned
Complete ==
    /\ decPc = "returned"
    /\ LET ids == Trimmed(predicted)
           tokens == IdsToTokens(ids)
       IN completion' = [ids |-> ids,
                         tokens |-> Zip3(ids, tokens, logProbs),
                         text |-> TokensToText(tokens)]
    /\ decPc' = "completed"
    /\ UNCHANGED <<ttg, predicted, logProbs, decSteps, rendersSpecials>>

DecNext ==
    \/ DecodeStart /\ DecFrame
    \/ \E tok \in Vocab : DecodeStep(tok) /\ DecFrame
    \/ Complete /\ DecFrame

(***************************************************************************)
(* _vocab_size_with_padding                                                *)
(***************************************************************************)
\* Bounds of the inputs tried besides the documented example.
MaxVocab == 7

MaxDivisor == 3

MaxTensorParallel == 2

VocabFrame == UNCHANGED <<schedVars, syncVars, ampVars, decVars, batchVars, setupVars>>

\* the example of the specification: pad(50000, 128, 4)
PaddingExample == <<50000, 128, 4>>

\* multiple = make_vocab_size_divisible_by * tensor_model_parallel_size
PadMultipleNoTP(d, tp) == d

PadMultiple(d, tp) == d * tp

VocabInputs ==
    ((1 .. MaxVocab) \X (1 .. MaxDivisor) \X (1 .. MaxTensorParallel)) \cup {PaddingExample}

VocabInit ==
    /\ \E input \in VocabInputs :
          /\ origVocab = input[1]
          /\ divisibleBy = input[2]
          /\ tpSize = input[3]
    /\ after = origVocab
    /\ vocabPc = "loop"

\* while (after % multiple) != 0: after += 1
PadStep ==
    /\ vocabPc = "loop"
    /\ after % PadMultiple(divisibleBy, tpSize) # 0
    /\ after' = after + 1
    /\ UNCHANGED <<origVocab, divisibleBy, tpSize, vocabPc>>

\* return after
PadReturn ==
    /\ vocabPc = "loop"
    /\ after % PadMultiple(divisibleBy, tpSize) = 0
    /\ vocabPc' = "returned"
    /\ UNCHANGED <<origVocab, divisibleBy, tpSize, after>>

VocabNext ==
    \/ PadStep /\ VocabFrame
    \/ PadReturn /\ VocabFrame

(***************************************************************************)
(* process_micro_batch and process_global_batch.  A tensor is the sequence *)
(* of its rows along dimension 0; an element carries its dtype.  The       *)
(* elements of a global batch are all different, so that an assembled      *)
(* element tells which field, microbatch, row and column it came from.     *)
(***************************************************************************)
\* Bounds of the batch model.
MaxBatchMicro == 2

MaxMicroBatchSize == 2

MaxSeqLen == 2

MaxMaskRows == 2

BatchFrame == UNCHANGED <<schedVars, syncVars, ampVars, decVars, vocabVars, setupVars>>

FieldNames == <<"text_enc", "text_dec", "labels", "loss_mask", "enc_mask", "dec_mask">>

FieldIx(name) == CHOOSE k \in 1 .. Len(FieldNames) : FieldNames[k] = name

SourceTensor(name, dt, mb, rows, cols) ==
    [e \in 1 .. rows |->
        [c \in 1 .. cols |-> [dt |-> dt, v |-> FieldIx(name) * 1000 + mb * 100 + e * 10 + c]]]

\* a microbatch of the data loader: size examples, one mask of maskRows rows
SourceMicroBatch(mb, size, encLen, decLen, maskRows, intDt, maskDt) ==
    [text_enc |-> SourceTensor("text_enc", intDt, mb, size, encLen),
     text_dec |-> SourceTensor("text_dec", intDt, mb, size, decLen),
     labels |-> SourceTensor("labels", intDt, mb, size, decLen),
     loss_mask |-> SourceTensor("loss_mask", maskDt, mb, size, decLen),
     enc_mask |-> SourceTensor("enc_mask", "bool", mb, maskRows, encLen),
     dec_mask |-> SourceTensor("dec_mask", "bool", mb, maskRows, decLen)]

\* tensor.long(), tensor.float(): the values here are whole numbers
CastTo(dt, tensor) ==
    [e \in 1 .. Len(tensor) |-> [c \in 1 .. Len(tensor[e]) |-> [tensor[e][c] EXCEPT !.dt = dt]]]

Long(tensor) == CastTo("int64", tensor)

Float(tensor) == CastTo("float32", tensor)

ProcessMicroBatchLabelsFirst(data_b) ==
    << Long(data_b.text_enc), Long(data_b.text_dec), Long(data_b.labels),
       Float(data_b.loss_mask), data_b.enc_mask, data_b.dec_mask >>

\* the tuple process_micro_batch returns:
\* tokens_enc, tokens_dec, loss_mask, labels, enc_mask, dec_mask
ProcessMicroBatch(data_b) ==
    << Long(data_b.text_enc), Long(data_b.text_dec), Float(data_b.loss_mask),
       Long(data_b.labels), data_b.enc_mask, data_b.dec_mask >>

\* torch.concat([mask for _ in range(n)])
Repeated(mask, n) == Flatten([k \in 1 .. n |-> mask])

AssembledTupleInNameOrder(l) ==
    << Flatten(l.text_enc), Flatten(l.text_dec), Flatten(l.loss_mask),
       Flatten(l.labels), Flatten(l.enc_mask), Flatten(l.dec_mask) >>

\* the tuple of the return statement of process_global_batch
AssembledTuple(l) ==
    << Flatten(l.text_enc), Flatten(l.text_dec), Flatten(l.labels),
       Flatten(l.loss_mask), Flatten(l.enc_mask), Flatten(l.dec_mask) >>

NotUnpacked == [bound |-> FALSE]

\* encoder_input_ids, decoder_input_ids, loss_mask, lm_labels,
\* encoder_attn_mask, decoder_attn_mask = batch
Unpacked(tuple) ==
    [bound |-> TRUE,
     encoder_input_ids |-> tuple[1], decoder_input_ids |-> tuple[2],
     loss_mask |-> tuple[3], lm_labels |-> tuple[4],
     encoder_attn_mask |-> tuple[5], decoder_attn_mask |-> tuple[6]]

EmptyLists ==
    [text_enc |-> << >>, text_dec |-> << >>, labels |-> << >>,
     loss_mask |-> << >>, enc_mask |-> << >>, dec_mask |-> << >>]

BatchInit ==
    /\ \E n \in 1 .. MaxBatchMicro, encLen \in 1 .. MaxSeqLen, decLen \in 1 .. MaxSeqLen,
          maskRows \in 1 .. MaxMaskRows,
          intDt \in {"int32", "int64"}, maskDt \in {"int64", "float32"} :
          \E sizes \in [1 .. n -> 1 .. MaxMicroBatchSize] :
             globalBatch = [mb \in 1 .. n |->
                 SourceMicroBatch(mb, sizes[mb], encLen, decLen, maskRows, intDt, maskDt)]
    /\ mbIdx = 0
    /\ lists = EmptyLists
    /\ assembled = << >>
    /\ batchPc = "loop"
    /\ batch = NotUnpacked

\* one iteration of: for micro_batch in global_batch
AppendMicroBatch ==
    /\ batchPc = "loop"
    /\ mbIdx < Len(globalBatch)
    /\ LET got == ProcessMicroBatch(globalBatch[mbIdx + 1])
           text_enc == got[1]
           text_dec == got[2]
           labels == got[3]
           loss_mask == got[4]
           enc_mask == got[5]
           dec_mask == got[6]
           micro_batch_size == Len(text_enc)
       IN lists' = [text_enc |-> Append(lists.text_enc, text_enc),
                    text_dec |-> Append(lists.text_dec, text_dec),
                    labels |-> Append(lists.labels, labels),
                    loss_mask |-> Append(lists.loss_mask, loss_mask),
                    enc_mask |-> Append(lists.enc_mask, Repeated(enc_mask, micro_batch_size)),
                    dec_mask |-> Append(lists.dec_mask, Repeated(dec_mask, micro_batch_size))]
    /\ mbIdx' = mbIdx + 1
    /\ UNCHANGED <<globalBatch, assembled, batchPc, batch>>

\* the concatenations after the loop, and the return
ReturnAssembled ==
    /\ batchPc = "loop"
    /\ mbIdx = Len(globalBatch)
    /\ assembled' = AssembledTuple(lists)
    /\ batchPc' = "returned"
    /\ UNCHANGED <<globalBatch, mbIdx, lists, batch>>

\* fwd_output_and_loss_func binds the six positions of the tuple it is given;
\* the model gets lm_labels as labels and loss_func gets loss_mask
FwdOutputAndLossFunc ==
    /\ batchPc = "returned"
    /\ batch' = Unpacked(assembled)
    /\ batchPc' = "unpacked"
    /\ UNCHANGED <<globalBatch, mbIdx, lists, assembled>>

BatchNext ==
    \/ AppendMicroBatch /\ BatchFrame
    \/ ReturnAssembled /\ BatchFrame
    \/ FwdOutputAndLossFunc /\ BatchFrame

(***************************************************************************)
(* Bounds of the model of construction and of the optimizer hooks.         *)
(***************************************************************************)
MaxClip == 2

NClipParams == 2

MaxClipSeed == 1

(***************************************************************************)
(* Construction (__init__), configure_optimizers and                       *)
(* configure_gradient_clipping.  setup_optimization, the optimizer wrapper *)
(* and clip_grad_norm_fp32 are imported; what they do is taken from the    *)
(* specification.                                                          *)
(***************************************************************************)
SetupFrame == UNCHANGED <<schedVars, syncVars, ampVars, decVars, batchVars, vocabVars>>

\* values of cfg.precision: the numbers 32, 16, 64, 8, the strings 'bf16' and
\* '16', and None
Precisions == {"32", "16", "'bf16'", "64", "8", "'16'", "None"}

AnyPrecision == TRUE

\* precision == 32, == 16 or == 'bf16'
SupportedPrecision == precision \in {"32", "16", "'bf16'"}

StepKinds == {"training_step", "validation_step", "predict_step"}

ClipParams == 1 .. NClipParams

ClipValues == {<<"None">>} \cup {<<"value", v>> : v \in (0 - 1) .. MaxClip}

\* a gradient: the value the backward passes left, times num / sqrt(den2)
Unclipped(v) == [value |-> v, num |-> 1, den2 |-> 1]

RawGradOf(seed, p) == Unclipped((seed * p) % 3)

MasterGradOf(seed, p) == Unclipped((seed * (p + 1)) % 3)

NeverWraps(kind) == FALSE

\* if self.megatron_amp_o2 and self._optimizer is not None
WrapsOptimizer(kind) == o2 /\ kind # "None"

SkipsOnlyNone == clipVal = <<"None">>

\* clip_val is None, or float(clip_val) <= 0
SkipsClipping == clipVal = <<"None">> \/ clipVal[2] <= 0

\* the square of the global L2 norm of a list of gradients
RECURSIVE NormSquared(_)
NormSquared(grads) ==
    IF grads = << >> THEN 0
    ELSE (Head(grads).value * Head(grads).value) + NormSquared(Tail(grads))

\* clip_grad_norm_fp32: the gradients are scaled by max_norm / norm when the
\* norm exceeds max_norm
ClipGradNormFp32(grads, maxNorm) ==
    IF NormSquared(grads) > maxNorm * maxNorm
    THEN [p \in 1 .. Len(grads) |->
            [value |-> grads[p].value, num |-> maxNorm, den2 |-> NormSquared(grads)]]
    ELSE grads

SetupInit ==
    /\ precision \in Precisions
    /\ maxStepsCfg \in {"None", "set"}
    /\ optimizerKind = "unset"
    /\ setupPc = "new"
    /\ ran = {}
    /\ clipVal \in ClipValues
    /\ clipSeed \in 0 .. MaxClipSeed
    /\ rawGrad = [p \in ClipParams |-> Unclipped(0)]
    /\ masterGrad = << >>
    /\ gradNorm = <<"None">>
    /\ clipPc = "idle"

\* __init__: the precision test ends the constructor with an error
Construct ==
    /\ setupPc = "new"
    /\ setupPc' = IF SupportedPrecision THEN "constructed" ELSE "raised_ValueError"
    /\ UNCHANGED <<precision, maxStepsCfg, optimizerKind, ran, clipVal, clipSeed,
                   rawGrad, masterGrad, gradNorm, clipPc>>

\* configure_optimizers; built: whether setup_optimization made an optimizer
ConfigureOptimizers(built) ==
    /\ setupPc = "constructed"
    /\ LET kind == IF built THEN "base" ELSE "None"
       IN IF WrapsOptimizer(kind)
          THEN /\ optimizerKind' = "main_params_wrapper"
               /\ setupPc' = IF maxStepsCfg # "None" THEN "configured"
                             ELSE "raised_AssertionError"
          ELSE /\ optimizerKind' = kind
               /\ setupPc' = "configured"
    /\ UNCHANGED <<precision, maxStepsCfg, ran, clipVal, clipSeed,
                   rawGrad, masterGrad, gradNorm, clipPc>>

\* a step on the model: training needs the optimizers configured; a training
\* step leaves gradients, which the clipping hook is then called on
RunStep(kind) ==
    /\ setupPc \in {"constructed", "configured"}
    /\ kind = "training_step" => setupPc = "configured" /\ optimizerKind # "None"
    /\ clipPc # "due"
    /\ ran' = ran \cup {kind}
    /\ IF kind = "training_step"
       THEN /\ rawGrad' = [p \in ClipParams |-> RawGradOf(clipSeed, p)]
            /\ masterGrad' = IF optimizerKind = "main_params_wrapper"
                             THEN [p \in ClipParams |-> MasterGradOf(clipSeed, p)]
                             ELSE << >>
            /\ gradNorm' = <<"None">>
            /\ clipPc' = "due"
       ELSE UNCHANGED <<rawGrad, masterGrad, gradNorm, clipPc>>
    /\ UNCHANGED <<precision, maxStepsCfg, optimizerKind, setupPc, clipVal, clipSeed>>

\* configure_gradient_clipping
ConfigureGradientClipping ==
    /\ clipPc = "due"
    /\ clipPc' = "done"
    /\ IF SkipsClipping
       THEN UNCHANGED <<rawGrad, masterGrad, gradNorm>>
       ELSE IF o2
       THEN /\ masterGrad' = ClipGradNormFp32(masterGrad, clipVal[2])
            /\ gradNorm' = <<"sqrt", NormSquared(masterGrad)>>
            /\ UNCHANGED rawGrad
       ELSE /\ rawGrad' = ClipGradNormFp32(rawGrad, clipVal[2])
            /\ gradNorm' = <<"sqrt", NormSquared(rawGrad)>>
            /\ UNCHANGED masterGrad
    /\ UNCHANGED <<precision, maxStepsCfg, optimizerKind, setupPc, ran, clipVal, clipSeed>>

SetupNext ==
    \/ Construct /\ SetupFrame
    \/ \E built \in BOOLEAN : ConfigureOptimizers(built) /\ SetupFrame
    \/ \E kind \in StepKinds : RunStep(kind) /\ SetupFrame
    \/ ConfigureGradientClipping /\ SetupFrame

(***************************************************************************)
(* Specifications: one per component, the others at rest.                  *)
(***************************************************************************)
SchedIdle ==
    /\ caller = "training_step"
    /\ numStages = 1
    /\ numMicro = 1
    /\ pc = [s \in Stages |-> "done"]
    /\ todo = [s \in Stages |-> << >>]
    /\ issued = [s \in Stages |-> << >>]
    /\ rcvdAct = [s \in Stages |-> << >>]
    /\ rcvdGrad = [s \in Stages |-> << >>]
    /\ losses = [s \in Stages |-> << >>]
    /\ lossSeed = 0
    /\ gradBuf = [s \in Stages |-> StaleGrad]
    /\ collectives = [s \in Stages |-> << >>]
    /\ lossMean = [s \in Stages |-> NoLoss]
    /\ events = [s \in Stages |-> << >>]

SyncIdle ==
    /\ o2 = TRUE
    /\ syncPipelined = FALSE
    /\ shareEmb = FALSE
    /\ paramKind = [p \in Params |-> "frozen"]
    /\ grad = [proc \in SyncProcs |-> [p \in Params |-> NoneGrad]]
    /\ grad0 = grad
    /\ dpBucket = [st \in SyncStages |-> 0]
    /\ embReduced = [r \in Replicas |-> FALSE]
    /\ mainGrad = [proc \in SyncProcs |-> NoneGrad]
    /\ mainGrad0 = mainGrad
    /\ issuedCalls = [proc \in SyncProcs |-> << >>]
    /\ stepReturned = FALSE

AmpIdle ==
    /\ precisionPlugin = "none"
    /\ scalerKind = "none"
    /\ updateSkipped = "None"
    /\ autoOpt = TRUE
    /\ lastEpoch = << >>
    /\ lr = << >>
    /\ maxSteps = 0
    /\ ampPc = "idle"
    /\ before = [lastEpoch |-> lastEpoch, lr |-> lr, maxSteps |-> maxSteps]
    /\ hookEntry = "None"
    /\ trainSteps = 0
    /\ skippedSteps = 0
    /\ accumulated = 0
    /\ maxSteps0 = maxSteps

DecIdle ==
    /\ ttg = 0
    /\ predicted = << >>
    /\ logProbs = << >>
    /\ decSteps = 0
    /\ decPc = "idle"
    /\ completion = NoCompletion
    /\ rendersSpecials = FALSE

BatchIdle ==
    /\ globalBatch = << >>
    /\ mbIdx = 0
    /\ lists = EmptyLists
    /\ assembled = << >>
    /\ batchPc = "idle"
    /\ batch = NotUnpacked

VocabIdle ==
    /\ origVocab = 1
    /\ divisibleBy = 1
    /\ tpSize = 1
    /\ after = 1
    /\ vocabPc = "idle"

\* a step of the scheduler under any setting of megatron_amp_O2 and
\* share_word_embeddings
SetupIdle ==
    /\ precision = "32"
    /\ maxStepsCfg = "set"
    /\ optimizerKind = "unset"
    /\ setupPc = "idle"
    /\ ran = {}
    /\ clipVal = <<"None">>
    /\ clipSeed = 0
    /\ rawGrad = << >>
    /\ masterGrad = << >>
    /\ gradNorm = <<"None">>
    /\ clipPc = "idle"

SyncConfigured ==
    /\ o2 \in BOOLEAN
    /\ syncPipelined = FALSE
    /\ shareEmb \in BOOLEAN
    /\ paramKind = [p \in Params |-> "frozen"]
    /\ grad = [proc \in SyncProcs |-> [p \in Params |-> NoneGrad]]
    /\ grad0 = grad
    /\ dpBucket = [st \in SyncStages |-> 0]
    /\ embReduced = [r \in Replicas |-> FALSE]
    /\ mainGrad = [proc \in SyncProcs |-> NoneGrad]
    /\ mainGrad0 = mainGrad
    /\ issuedCalls = [proc \in SyncProcs |-> << >>]
    /\ stepReturned = FALSE

StartSchedOnly ==
    SchedInit /\ SyncConfigured /\ AmpIdle /\ DecIdle /\ BatchIdle /\ VocabIdle /\ SetupIdle

SpecSched == StartSchedOnly /\ [][SchedNext]_vars

\* no process stops in the middle of a step: a step that can be taken is taken
FairSpecSched == SpecSched /\ WF_vars(SchedNext)

StartSyncOnly == SchedIdle /\ SyncInit /\ AmpIdle /\ DecIdle /\ BatchIdle /\ VocabIdle /\ SetupIdle

SpecSync == StartSyncOnly /\ [][SyncNext]_vars

StartAmpOnly == SchedIdle /\ SyncIdle /\ AmpInit /\ DecIdle /\ BatchIdle /\ VocabIdle /\ SetupIdle

SpecAmp == StartAmpOnly /\ [][AmpNext]_vars

StartDecOnly == SchedIdle /\ SyncIdle /\ AmpIdle /\ DecInit /\ BatchIdle /\ VocabIdle /\ SetupIdle

SpecDecode == StartDecOnly /\ [][DecNext]_vars

\* the loop of decode is not interrupted: a step that can be taken is taken
FairSpecDecode == SpecDecode /\ WF_vars(DecNext)

StartBatchOnly == SchedIdle /\ SyncIdle /\ AmpIdle /\ DecIdle /\ BatchInit /\ VocabIdle /\ SetupIdle

SpecBatch == StartBatchOnly /\ [][BatchNext]_vars

StartVocabOnly == SchedIdle /\ SyncIdle /\ AmpIdle /\ DecIdle /\ BatchIdle /\ VocabInit /\ SetupIdle

SpecVocab == StartVocabOnly /\ [][VocabNext]_vars

StartSetupOnly ==
    SchedIdle /\ SyncConfigured /\ AmpIdle /\ DecIdle /\ BatchIdle /\ VocabIdle /\ SetupInit

SpecSetup == StartSetupOnly /\ [][SetupNext]_vars

(***************************************************************************)
(* Claims about the scheduler.                                             *)
(***************************************************************************)
PassCount(s, kind, mb) ==
    Cardinality({j \in 1 .. Len(issued[s]) : issued[s][j] = <<kind, mb>>})

MicroIds == 0 .. (numMicro - 1)

\* C1: at the end of a scheduler step every stage has issued exactly one
\* forward pass per microbatch, and in a training step (forward_only false)
\* exactly one backward pass per microbatch, so that forward and backward
\* passes are equally many; no pass is ever issued twice or for a microbatch
\* that does not exist.
C1_OnePassPerMicrobatch ==
    /\ \A s \in Stages : \A j \in 1 .. Len(issued[s]) :
          /\ issued[s][j][2] \in MicroIds
          /\ PassCount(s, issued[s][j][1], issued[s][j][2]) = 1
    /\ SchedDone =>
          \A s \in Stages :
             /\ \A mb \in MicroIds : PassCount(s, "F", mb) = 1
             /\ caller = "training_step" =>
                   /\ \A mb \in MicroIds : PassCount(s, "B", mb) = 1
                   /\ NumFwd(s) = NumBwd(s)

C1_Witness ==
    /\ SchedDone
    /\ caller = "training_step"
    /\ numStages = 4
    /\ numMicro = 3
    /\ \A s \in Stages : NumFwd(s) = 3 /\ NumBwd(s) = 3

\* C2: in pipelined mode the j-th activation a stage receives is that of
\* microbatch j - 1, the stage before has completed that forward pass, and the
\* stage runs the forward pass of a microbatch only once it has its activation;
\* the same for the gradients and the backward passes of the stage after.
C2_ReceivesOnlyWhatWasProduced ==
    Pipelined =>
       \A s \in Stages :
          /\ ~IsFirstStage(s) =>
                /\ \A j \in 1 .. Len(rcvdAct[s]) :
                      rcvdAct[s][j] = j - 1 /\ PassCount(s - 1, "F", j - 1) = 1
                /\ NumFwd(s) <= Len(rcvdAct[s])
          /\ ~IsLastStage(s) =>
                /\ \A j \in 1 .. Len(rcvdGrad[s]) :
                      rcvdGrad[s][j] = j - 1 /\ PassCount(s + 1, "B", j - 1) = 1
                /\ NumBwd(s) <= Len(rcvdGrad[s])

C2_Witness ==
    /\ numStages = 3
    /\ numMicro = 3
    /\ rcvdAct[1] = <<0, 1, 2>>
    /\ rcvdGrad[1] = <<0, 1, 2>>
    /\ rcvdAct[2] = <<0, 1, 2>>
    /\ rcvdGrad[0] = <<0, 1, 2>>

\* C3: the losses a stage returns are non-empty exactly on the last pipeline
\* stage, for every stage count (1, 2 and 4 among them), in a training step
\* and in a forward-only step.
C3_LossesOnlyOnLastStage ==
    \A s \in Stages : pc[s] = "done" => (losses[s] # << >> <=> IsLastStage(s))

C3_Witness ==
    /\ SchedDone
    /\ numStages = 4
    /\ caller = "validation_step"
    /\ losses[3] = <<0, 1>>
    /\ \A s \in 0 .. 2 : losses[s] = << >>

(***************************************************************************)
(* Claims about the gradient synchronisation.                              *)
(***************************************************************************)
\* parameter p of stage st is in a bucket its group has already all-reduced
ReducedInBucket(st, p) ==
    /\ InBucket(<<st, 1>>, p)
    /\ \E k \in 1 .. dpBucket[st] : BucketKeys(<<st, 1>>)[k] = Dtype(p)

\* the embedding all-reduce has since changed the gradient of p on proc
EmbeddingSummed(proc, p) ==
    p = EmbParam /\ proc[1] \in {"first", "last"} /\ embReduced[proc[2]]

\* C4: once a data-parallel group has all-reduced a bucket, every replica
\* holds, for every parameter of the bucket and every element of its gradient,
\* the mean over the replicas of the gradients the backward passes left
\* (until the embedding all-reduce adds the other stage's copy to it).
C4_AllReduceIsMean ==
    \A proc \in SyncProcs : \A p \in Params :
       (ReducedInBucket(proc[1], p) /\ ~EmbeddingSummed(proc, p)) =>
          /\ grad[proc][p].has
          /\ Len(grad[proc][p].num) = Numel(p)
          /\ \A j \in 1 .. Numel(p) :
                grad[proc][p].num[j] * Cardinality(Replicas)
                   = grad[proc][p].den
                        * SumNat([r \in Replicas |-> grad0[<<proc[1], r>>][p].num[j]], Replicas)

C4_Witness ==
    /\ ~syncPipelined
    /\ paramKind = <<"grad32", "grad16">>
    /\ dpBucket["only"] = 2
    /\ grad0[<<"only", 1>>][2] # grad0[<<"only", 2>>][2]
    /\ grad[<<"only", 1>>][2].num # grad0[<<"only", 1>>][2].num

\* C5: when the synchronisation of a training step has run (it runs when the
\* O2 path is off), the replicas of a data-parallel group hold the same
\* gradient for every parameter, and the first-stage and last-stage copies of
\* a shared word embedding hold the same gradient (until something else, a
\* later call of allreduce_first_last_embeddings, reduces gradients again).
C5_ReplicasAgree ==
    (SyncRan /\ \A proc \in SyncProcs : ~CalledFirstLastEmbeddings(proc)) =>
       /\ \A st \in SyncStages : \A p \in Params : \A r1, r2 \in Replicas :
             grad[<<st, r1>>][p] = grad[<<st, r2>>][p]
       /\ (syncPipelined /\ shareEmb) =>
             \A r \in Replicas : grad[<<"first", r>>][EmbParam] = grad[<<"last", r>>][EmbParam]

C5_Witness ==
    /\ SyncRan
    /\ syncPipelined
    /\ shareEmb
    /\ grad0[<<"first", 1>>][EmbParam] # grad0[<<"last", 1>>][EmbParam]
    /\ grad0[<<"first", 1>>][EmbParam] # grad0[<<"first", 2>>][EmbParam]
    /\ paramKind[2] = "stale"

(***************************************************************************)
(* Claims about on_train_batch_end.                                        *)
(***************************************************************************)
\* on_train_batch_end has just run and found the skip flag of the GradScaler set
HandledSkippedStep ==
    /\ ampPc = "idle"
    /\ trainSteps > 0
    /\ HasGradScaler
    /\ hookEntry = "True"

\* C6 as stated: after on_train_batch_end of a step whose optimizer update was
\* skipped, every scheduler's counter and learning rate are those from before
\* the step and the maximum-step budget is one more than before, however many
\* schedulers there are.
C6_AsStated ==
    HandledSkippedStep =>
       /\ lastEpoch = before.lastEpoch
       /\ lr = before.lr
       /\ maxSteps = before.maxSteps + 1

\* C6 as amended: the counters and learning rates are those from before the
\* step; the budget is one more than before when there is at least one
\* scheduler and optimization is automatic, and otherwise unchanged (the hook
\* returns before it touches the budget or the flag).
C6_RewindAndBudget ==
    HandledSkippedStep =>
       /\ lastEpoch = before.lastEpoch
       /\ lr = before.lr
       /\ IF Len(lastEpoch) > 0 /\ autoOpt
          THEN maxSteps = before.maxSteps + 1 /\ updateSkipped = "None"
          ELSE maxSteps = before.maxSteps /\ updateSkipped = "True"

C6_Witness ==
    /\ HandledSkippedStep
    /\ autoOpt
    /\ lastEpoch = <<1, 1>>
    /\ trainSteps = 2
    /\ maxSteps = before.maxSteps + 1

(***************************************************************************)
(* Claims about decode and complete.                                       *)
(***************************************************************************)
Generated == SubSeq(predicted, 2, Len(predicted))

\* C7: with tokens_to_generate = 5 and a model whose first generated token is
\* the end-of-sequence token, decode performs exactly one decoder step and
\* complete returns no completion tokens and an empty completion text.
C7_EmptyCompletion ==
    (decPc = "completed" /\ ttg = 5 /\ predicted[2] = EosId) =>
       /\ decSteps = 1
       /\ completion.tokens = << >>
       /\ completion.text = << >>

DecodeSafe ==
    /\ decSteps <= ttg
    /\ decPc \in {"loop", "returned", "completed"} => Len(predicted) = decSteps + 1
    /\ decPc = "loop" => decSteps < ttg /\ ~Contains(Generated, EosId)
    /\ decPc \in {"returned", "completed"} =>
          /\ decSteps >= 1
          /\ Last(predicted) = EosId \/ decSteps = ttg
          /\ ~Contains(SubSeq(predicted, 2, Len(predicted) - 1), EosId)

\* decode has left its loop
DecodeLeft == decPc \in {"returned", "completed", "raised"}

\* C8: the loop of decode terminates; it performs at most tokens_to_generate
\* steps, it is left right after the first step that generates the
\* end-of-sequence token, and no step is performed once it is left.
C8_DecodeTerminates ==
    /\ []DecodeSafe
    /\ [][DecodeLeft => UNCHANGED <<predicted, decSteps, logProbs>>]_vars
    /\ <>(decPc \in {"completed", "raised"})

C8_Witness ==
    /\ decPc = "returned"
    /\ ttg = 5
    /\ decSteps = 3
    /\ predicted = <<BosId, "a", PadId, EosId>>

(***************************************************************************)
(* Claims about process_global_batch.                                      *)
(***************************************************************************)
\* rows of tensor from row `from`, `count` of them
Rows(tensor, from, count) == SubSeq(tensor, from, from + count - 1)

Values(tensor) == [e \in 1 .. Len(tensor) |-> [c \in 1 .. Len(tensor[e]) |-> tensor[e][c].v]]

DtypesOf(tensor) ==
    UNION {{tensor[e][c].dt : c \in 1 .. Len(tensor[e])} : e \in 1 .. Len(tensor)}

MicroBatchSize(mb) == Len(globalBatch[mb].text_enc)

RECURSIVE ExamplesBefore(_)
ExamplesBefore(mb) == IF mb = 1 THEN 0 ELSE ExamplesBefore(mb - 1) + MicroBatchSize(mb - 1)

\* the rows of microbatch mb in an assembled tensor of one row per example
ExampleSlice(tensor, mb) == Rows(tensor, ExamplesBefore(mb) + 1, MicroBatchSize(mb))

RECURSIVE MaskRowsBefore(_)
MaskRowsBefore(mb) ==
    IF mb = 1 THEN 0
    ELSE MaskRowsBefore(mb - 1) + MicroBatchSize(mb - 1) * Len(globalBatch[mb - 1].enc_mask)

\* the rows of microbatch mb in an assembled mask tensor
MaskSlice(tensor, mb) ==
    Rows(tensor, MaskRowsBefore(mb) + 1, MicroBatchSize(mb) * Len(globalBatch[mb].enc_mask))

\* the slices of the four per-example tensors reproduce the microbatch, read at
\* the positions the forward step reads them: 3 the loss mask, 4 the labels
ExampleFieldsRoundTrip(mb) ==
    /\ Values(ExampleSlice(assembled[1], mb)) = Values(globalBatch[mb].text_enc)
    /\ Values(ExampleSlice(assembled[2], mb)) = Values(globalBatch[mb].text_dec)
    /\ Values(ExampleSlice(assembled[3], mb)) = Values(globalBatch[mb].loss_mask)
    /\ Values(ExampleSlice(assembled[4], mb)) = Values(globalBatch[mb].labels)

\* C9 as stated: slicing the assembled tensors at the microbatch boundaries
\* gives back each microbatch's tensors, in order: tokens, labels, loss mask,
\* and the two masks.
C9_AsStated ==
    batchPc = "returned" =>
       \A mb \in 1 .. Len(globalBatch) :
          /\ ExampleFieldsRoundTrip(mb)
          /\ MaskSlice(assembled[5], mb) = globalBatch[mb].enc_mask
          /\ MaskSlice(assembled[6], mb) = globalBatch[mb].dec_mask

\* C9 as amended: the slices of the token, loss-mask and label tensors hold the
\* microbatch's values, as int64 (tokens, labels) and float32 (loss mask); the
\* slice of a mask is the microbatch's mask repeated once per example of the
\* microbatch.
C9_RoundTrip ==
    batchPc = "returned" =>
       /\ \A mb \in 1 .. Len(globalBatch) :
             /\ ExampleFieldsRoundTrip(mb)
             /\ MaskSlice(assembled[5], mb)
                   = Repeated(globalBatch[mb].enc_mask, MicroBatchSize(mb))
             /\ MaskSlice(assembled[6], mb)
                   = Repeated(globalBatch[mb].dec_mask, MicroBatchSize(mb))
       /\ \A k \in {1, 2, 4} : DtypesOf(assembled[k]) = {"int64"}
       /\ DtypesOf(assembled[3]) = {"float32"}
       /\ \A k \in 1 .. 4 : Len(assembled[k]) = ExamplesBefore(Len(globalBatch) + 1)
       /\ \A k \in 5 .. 6 : Len(assembled[k]) = MaskRowsBefore(Len(globalBatch) + 1)

C9_Witness ==
    /\ batchPc = "returned"
    /\ Len(globalBatch) = 2
    /\ MicroBatchSize(1) = 2
    /\ MicroBatchSize(2) = 1
    /\ Len(globalBatch[1].enc_mask) = 1
    /\ MaskSlice(assembled[5], 1) # globalBatch[1].enc_mask
    /\ globalBatch[1].loss_mask[1][1].dt = "int64"

(***************************************************************************)
(* Claims about _vocab_size_with_padding.                                  *)
(***************************************************************************)
\* C10: for positive inputs the loop ends (it adds less than one multiple)
\* and returns the smallest multiple of
\* make_vocab_size_divisible_by * tensor_model_parallel_size that is not below
\* orig_vocab_size; (50000, 128, 4) gives 50176.
C10_SmallestMultiple ==
    LET m == divisibleBy * tpSize
    IN vocabPc \in {"loop", "returned"} =>
          /\ origVocab <= after
          /\ after - origVocab < m
          /\ vocabPc = "loop" => ENABLED VocabNext
          /\ vocabPc = "returned" =>
                /\ after % m = 0
                /\ \A k \in origVocab .. (after - 1) : k % m # 0
                /\ <<origVocab, divisibleBy, tpSize>> = PaddingExample => after = 50176

C10_Witness ==
    /\ vocabPc = "returned"
    /\ origVocab = 50000
    /\ divisibleBy = 128
    /\ tpSize = 4
    /\ after = 50176

(***************************************************************************)
(* Claims about the order of the passes of one stage.                      *)
(***************************************************************************)
InOrder(q) == q = [j \in 1 .. Len(q) |-> j - 1]

\* C11: in both scheduling modes, at every moment of a step, the forward
\* passes a stage has issued are those of microbatches 0, 1, 2, ... in that
\* order, and so are its backward passes; a finished step has issued all m
\* forward passes and, in training, all m backward passes.
C11_IssuedInBatchOrder ==
    \A s \in Stages :
        /\ InOrder(Issued(s, "F"))
        /\ InOrder(Issued(s, "B"))
        /\ pc[s] = "done" =>
              /\ Len(Issued(s, "F")) = numMicro
              /\ caller = "training_step" => Len(Issued(s, "B")) = numMicro

\* a pipelined training step with warm-up passes has finished: stage 0 kept
\* several forward passes before its first backward pass
C11_Witness ==
    /\ SchedDone
    /\ caller = "training_step"
    /\ numStages >= 2
    /\ numMicro >= 2
    /\ Issued(0, "B") = [j \in 1 .. numMicro |-> j - 1]

Kinds(s) == [j \in 1 .. Len(issued[s]) |-> issued[s][j][1]]

Repeat(q, n) == [j \in 1 .. (n * Len(q)) |-> q[((j - 1) % Len(q)) + 1]]

\* w warm-up forward passes, forward and backward alternating for the other
\* microbatches, then the backward passes of the warm-up microbatches
OneFOneB(w, m) ==
    Repeat(<<"F">>, w) \o Repeat(<<"F", "B">>, IF m > w THEN m - w ELSE 0)
        \o Repeat(<<"B">>, w)

IsPrefix(q, r) == Len(q) <= Len(r) /\ q = SubSeq(r, 1, Len(q))

IsMeanOfRecords(value, s) ==
    /\ value.kind = "tensor"
    /\ value.den > 0
    /\ value.num * Len(losses[s]) = value.den * SumSeq(LossTensors(losses[s]))

\* loss_mean of stage s has been computed and not yet overwritten by the
\* broadcast
HasStepLoss(s) == pc[s] = "broadcast" \/ (pc[s] = "done" /\ RunsValidationStep)

\* C13: the loss_mean a process computes is the mean of the 'avg' scalars of
\* its loss records when it has records; with no records it is the zero
\* tensor in training_step and the empty list in validation_step.
C13_StepLossIsMean ==
    \A s \in Stages :
        HasStepLoss(s) =>
            IF losses[s] # << >> THEN IsMeanOfRecords(lossMean[s], s)
            ELSE IF caller = "training_step" THEN lossMean[s] = ZeroLoss
            ELSE lossMean[s] = EmptyList

\* a training step of two stages and three microbatches with 'avg' scalars
\* 1, 2, 2: the last stage has the mean 5/3, the first stage zero
C13_Witness ==
    /\ caller = "training_step"
    /\ numStages = 2
    /\ pc = [s \in Stages |-> "broadcast"]
    /\ LossTensors(losses[1]) = <<1, 2, 2>>
    /\ lossMean[1] = [kind |-> "tensor", num |-> 5, den |-> 3]
    /\ lossMean[0] = ZeroLoss

GradientTransfers == {"send_bwd", "recv_bwd"}

\* C16: in validation_step and test_step no stage issues a backward pass,
\* sends or receives a gradient, zeroes or changes its gradient buffers, or
\* issues a gradient all-reduce.
C16_ValidationLeavesGradients ==
    RunsValidationStep =>
        \A s \in Stages :
            /\ Issued(s, "B") = << >>
            /\ rcvdGrad[s] = << >>
            /\ \A j \in 1 .. Len(todo[s]) : todo[s][j] \cap GradientTransfers = {}
            /\ gradBuf[s] = StaleGrad
            /\ collectives[s] = << >>

\* a finished pipelined test step of several microbatches
C16_Witness ==
    /\ caller = "test_step"
    /\ SchedDone
    /\ numStages >= 2
    /\ numMicro >= 2
    /\ \A s \in Stages : Len(Issued(s, "F")) = numMicro /\ gradBuf[s] = StaleGrad

(***************************************************************************)
(* Claims about the buckets of allreduce_gradients.                        *)
(***************************************************************************)
\* the places (k, i) at which parameter p stands in the buckets of proc
PlacesInBuckets(proc, p) ==
    {place \in (1 .. Len(BucketKeys(proc))) \X Params :
        /\ place[2] <= Len(Bucket(proc, BucketKeys(proc)[place[1]]))
        /\ Bucket(proc, BucketKeys(proc)[place[1]])[place[2]] = p}

\* requires_grad, and a gradient that was not None when the call began
HadTrainableGrad(proc, p) ==
    paramKind[p] \in {"grad16", "grad32", "nograd"} /\ grad0[proc][p].has

\* C15: on every process the buckets hold exactly the parameters that
\* require a gradient and had one when allreduce_gradients was called, each
\* of them once, in the bucket of its own dtype, the keys being distinct;
\* the gradient of every other parameter stays what it was.
C15_BucketsPartitionTrainable ==
    \A proc \in SyncProcs :
        /\ \A k1, k2 \in 1 .. Len(BucketKeys(proc)) :
              BucketKeys(proc)[k1] = BucketKeys(proc)[k2] => k1 = k2
        /\ \A p \in Params :
              /\ HadTrainableGrad(proc, p) =>
                    /\ Cardinality(PlacesInBuckets(proc, p)) = 1
                    /\ \A place \in PlacesInBuckets(proc, p) :
                          BucketKeys(proc)[place[1]] = Dtype(p)
              /\ ~HadTrainableGrad(proc, p) =>
                    /\ PlacesInBuckets(proc, p) = {}
                    /\ grad[proc][p] = grad0[proc][p]

\* allreduce_gradients has run with one parameter in a bucket, changed by the
\* all-reduce, and a frozen parameter whose gradient of an earlier step stayed
C15_Witness ==
    /\ ~syncPipelined
    /\ paramKind = <<"grad16", "stale">>
    /\ dpBucket["only"] = 1
    /\ grad[<<"only", 1>>][1] # grad0[<<"only", 1>>][1]
    /\ grad0[<<"only", 1>>][2].has
    /\ grad[<<"only", 1>>][2] = grad0[<<"only", 1>>][2]

(***************************************************************************)
(* Claims about construction and the optimizer hooks.                      *)
(***************************************************************************)
\* C17: with a precision other than 32, 16 or 'bf16' the constructor ends
\* with an error and no step ever runs on the model; with one of the three
\* the constructor does not raise that error.
C17_UnsupportedPrecisionFails ==
    IF precision \in {"32", "16", "'bf16'"}
    THEN setupPc # "raised_ValueError"
    ELSE setupPc \in {"new", "raised_ValueError"} /\ ran = {}

\* the constructor has raised on the string '16', which is not the number 16
C17_Witness == precision = "'16'" /\ setupPc = "raised_ValueError"

ConfigureOptimizersRan == setupPc \in {"configured", "raised_AssertionError"}

\* C18 as stated: with max_steps unset configure_optimizers fails in every
\* configuration
C18_AsStated ==
    (maxStepsCfg = "None" /\ ConfigureOptimizersRan) =>
        setupPc = "raised_AssertionError" /\ "training_step" \notin ran

\* C18: with max_steps unset, configure_optimizers fails, before any training
\* step, when megatron_amp_O2 is on and setup_optimization has made an
\* optimizer; otherwise it does not test max_steps and does not fail.
C18_FailsOnlyOnO2Path ==
    (maxStepsCfg = "None" /\ ConfigureOptimizersRan) =>
        IF o2 /\ optimizerKind # "None"
        THEN setupPc = "raised_AssertionError" /\ "training_step" \notin ran
        ELSE setupPc = "configured"

\* configure_optimizers has wrapped the optimizer and failed on max_steps
C18_Witness ==
    /\ maxStepsCfg = "None"
    /\ o2
    /\ optimizerKind = "main_params_wrapper"
    /\ setupPc = "raised_AssertionError"

\* the gradients a training step left, before the clipping hook
RawGradsLeft == [p \in ClipParams |-> RawGradOf(clipSeed, p)]

MasterGradsLeft == IF o2 THEN [p \in ClipParams |-> MasterGradOf(clipSeed, p)] ELSE << >>

\* C19: after configure_gradient_clipping, with a clip value of None or at
\* most 0 no gradient has changed and no norm was computed; otherwise the
\* gradients of the fp32 master parameters were clipped by their global norm
\* when megatron_amp_O2 is on, and those of the parameters of the optimizer
\* parameter groups when it is off, the other gradients being unchanged.
C19_ClipsTheRightParameters ==
    clipPc = "done" =>
        IF clipVal = <<"None">> \/ clipVal[2] <= 0
        THEN /\ rawGrad = RawGradsLeft
             /\ masterGrad = MasterGradsLeft
             /\ gradNorm = <<"None">>
        ELSE IF o2
        THEN /\ masterGrad = ClipGradNormFp32(MasterGradsLeft, clipVal[2])
             /\ gradNorm = <<"sqrt", NormSquared(MasterGradsLeft)>>
             /\ rawGrad = RawGradsLeft
        ELSE /\ rawGrad = ClipGradNormFp32(RawGradsLeft, clipVal[2])
             /\ gradNorm = <<"sqrt", NormSquared(RawGradsLeft)>>
             /\ masterGrad = MasterGradsLeft

\* the hook has clipped master gradients of norm 2 to the clip value 1 and
\* left the other gradients alone
C19_Witness ==
    /\ clipPc = "done"
    /\ o2
    /\ clipVal = <<"value", 1>>
    /\ masterGrad[1] = [value |-> 2, num |-> 1, den2 |-> 4]
    /\ rawGrad = RawGradsLeft
    /\ rawGrad # masterGrad

(***************************************************************************)
(* Claims about the trimming of a completion.                              *)
(***************************************************************************)
\* C20: the ids of a completion hold no end-of-sequence token and are the
\* decoded ids that precede the first one; when the decoded sequence has no
\* end-of-sequence token, they are the decoded ids without the pad tokens,
\* in the decoded order.
C20_CompletionIsTrimmed ==
    decPc = "completed" =>
        /\ \A j \in 1 .. Len(completion.ids) : completion.ids[j] # EosId
        /\ IF \E j \in 1 .. Len(predicted) : predicted[j] = EosId
           THEN /\ Len(completion.ids) < Len(predicted)
                /\ completion.ids = SubSeq(predicted, 1, Len(completion.ids))
                /\ predicted[Len(completion.ids) + 1] = EosId
           ELSE /\ \A j \in 1 .. Len(completion.ids) : completion.ids[j] # PadId
                /\ completion.ids = SelectSeq(predicted, LAMBDA id : id # PadId)

\* a completion of a decoded sequence that ends with the end-of-sequence
\* token after two other generated tokens
C20_Witness ==
    /\ decPc = "completed"
    /\ predicted = <<BosId, PadId, "a", EosId>>
    /\ completion.ids = <<BosId, PadId, "a">>

(***************************************************************************)
(* Claims about the skip flag and the accounting of skipped steps.         *)
(***************************************************************************)
\* the latest on_train_batch_end found the flag of a NeMo GradScaler set
HookFoundFlagSet ==
    /\ ampPc = "idle"
    /\ trainSteps + accumulated > 0
    /\ precisionPlugin = "native_amp" /\ scalerKind = "GradScaler"
    /\ hookEntry = "True"

\* C21 as stated: the flag is cleared on exit in every configuration of
\* schedulers and optimization mode
C21_AsStated == HookFoundFlagSet => updateSkipped = "None"

\* C21: when on_train_batch_end finds the flag set, it clears it on exit if
\* there is at least one scheduler and optimization is automatic, and then
\* one overflow raises the budget once only, also across batches that only
\* accumulate gradients; with no scheduler or with manual optimization it
\* returns with the flag still set, having changed nothing.
C21_FlagClearedWhenHandled ==
    /\ [](HookFoundFlagSet =>
             IF Len(lastEpoch) > 0 /\ autoOpt
             THEN updateSkipped = "None" /\ maxSteps = before.maxSteps + 1
             ELSE updateSkipped = "True" /\ maxSteps = before.maxSteps)
    /\ [](maxSteps <= maxSteps0 + skippedSteps)

\* an overflow was handled, and the hook of a following accumulating batch
\* found the flag cleared and left the budget alone
C21_Witness ==
    /\ ampPc = "idle"
    /\ precisionPlugin = "native_amp" /\ scalerKind = "GradScaler"
    /\ autoOpt /\ Len(lastEpoch) > 0
    /\ skippedSteps = 1 /\ trainSteps = 1 /\ accumulated = 1
    /\ hookEntry = "None"
    /\ maxSteps = maxSteps0 + 1

\* on_train_batch_end runs in this step
HookRuns == ampPc = "batch_end" /\ ampPc' = "idle"

\* C26: with a NeMo GradScaler under native mixed precision, at least one
\* scheduler and automatic optimization, after any number of training steps
\* the budget is its configured value plus the number of skipped steps and
\* every scheduler's counter is the number of steps that were not skipped;
\* and a run of on_train_batch_end that finds the flag unset or false, or
\* another precision plugin, or another scaler, changes neither the
\* schedulers' counters nor the budget.
C26_BudgetAccounting ==
    /\ []((/\ ampPc = "idle"
           /\ precisionPlugin = "native_amp" /\ scalerKind = "GradScaler"
           /\ Len(lastEpoch) > 0 /\ autoOpt) =>
             /\ maxSteps = maxSteps0 + skippedSteps
             /\ \A k \in 1 .. Len(lastEpoch) : lastEpoch[k] = trainSteps - skippedSteps)
    /\ [][(/\ HookRuns
           /\ \/ updateSkipped # "True"
              \/ precisionPlugin # "native_amp"
              \/ scalerKind # "GradScaler") => UNCHANGED <<lastEpoch, lr, maxSteps>>]_vars

\* three training steps of which two were skipped, with two schedulers
C26_Witness ==
    /\ ampPc = "idle"
    /\ precisionPlugin = "native_amp" /\ scalerKind = "GradScaler"
    /\ autoOpt
    /\ trainSteps = 3 /\ skippedSteps = 2
    /\ lastEpoch = <<1, 1>>
    /\ maxSteps = maxSteps0 + 2

(***************************************************************************)
(* Claims about the triples of a completion and about decode's result.     *)
(***************************************************************************)
\* the generated tokens that precede the first end-of-sequence token
GeneratedBeforeEos ==
    IF \E j \in 1 .. Len(Generated) : Generated[j] = EosId
    THEN SubSeq(Generated, 1,
                (CHOOSE j \in 1 .. Len(Generated) :
                    Generated[j] = EosId /\ \A i \in 1 .. (j - 1) : Generated[i] # EosId) - 1)
    ELSE Generated

\* the log-probability with which the k-th generated token was chosen: the
\* entry of log_probs at the position before it
LogProbOfGenerated(k) == logProbs[k]

\* C24: completion.tokens has one triple per generated token that precedes
\* the first end-of-sequence token, in generation order, without the initial
\* beginning-of-sequence token; a triple holds the id, the string of that id
\* and the log-probability with which that token was chosen.
C24_TriplesOfGeneratedTokens ==
    decPc = "completed" =>
        completion.tokens =
            [k \in 1 .. Len(GeneratedBeforeEos) |->
                <<GeneratedBeforeEos[k], <<"token", GeneratedBeforeEos[k]>>,
                  LogProbOfGenerated(k)>>]

\* C28: for every tokens_to_generate >= 0 decode returns; the sequence
\* starts with the beginning-of-sequence token, holds one token more than
\* steps were performed, and holds the end-of-sequence token among the
\* generated tokens only as its last element.
C28_DecodeReturnsSequence ==
    /\ decPc # "raised"
    /\ decPc \in {"loop", "returned", "completed"} =>
          /\ predicted[1] = BosId
          /\ Len(predicted) = 1 + decSteps
          /\ \A j \in 2 .. (Len(predicted) - 1) : predicted[j] # EosId
    /\ decPc \in {"returned", "completed"} => Len(logProbs) = decSteps

\* the same for tokens_to_generate >= 1 only
DecodeReturnsSequenceFromOne == ttg >= 1 => C28_DecodeReturnsSequence

(***************************************************************************)
(* Claims about the positions of the assembled tuple.                      *)
(***************************************************************************)
\* the fields of the data loader's microbatches a tensor's elements come from
FieldsIn(tensor) ==
    {FieldNames[tensor[e][c].v \div 1000] : e \in 1 .. Len(tensor), c \in 1 .. Len(Head(tensor))}

\* C29: every name the forward step binds holds the field it is named after:
\* encoder tokens, decoder tokens, loss mask, labels, encoder mask, decoder
\* mask; the loss function's loss mask is the microbatches' loss mask and the
\* model's labels are the microbatches' labels.
C29_PositionsCarryTheirFields ==
    batchPc = "unpacked" =>
        /\ batch.bound
        /\ FieldsIn(batch.encoder_input_ids) = {"text_enc"}
        /\ FieldsIn(batch.decoder_input_ids) = {"text_dec"}
        /\ FieldsIn(batch.loss_mask) = {"loss_mask"}
        /\ FieldsIn(batch.lm_labels) = {"labels"}
        /\ FieldsIn(batch.encoder_attn_mask) = {"enc_mask"}
        /\ FieldsIn(batch.decoder_attn_mask) = {"dec_mask"}
        /\ \A mb \in 1 .. Len(globalBatch) :
              /\ Values(ExampleSlice(batch.loss_mask, mb)) = Values(globalBatch[mb].loss_mask)
              /\ Values(ExampleSlice(batch.lm_labels, mb)) = Values(globalBatch[mb].labels)

C29_Witness ==
    /\ batchPc = "unpacked"
    /\ Len(globalBatch) = 2
    /\ Values(ExampleSlice(batch.loss_mask, 2)) = Values(globalBatch[2].loss_mask)
    /\ Values(batch.lm_labels) # Values(batch.loss_mask)
    /\ assembled[3] = Flatten(lists.labels)

(***************************************************************************)
(* Claims about the collectives of a training step.                        *)
(***************************************************************************)
\* the collectives proc has issued on a process group from inside a function
CallsOn(proc, group, by) ==
    SelectSeq(issuedCalls[proc], LAMBDA c : c.group = group /\ c.by = by)

\* the tensors of a sequence of calls
TensorsOf(calls) == [k \in 1 .. Len(calls) |-> calls[k].tensor]

MasterGradReduced ==
    /\ o2
    /\ syncPipelined
    /\ stepReturned
    /\ CalledFirstLastEmbeddings(<<"first", 1>>)
    /\ mainGrad[<<"first", 1>>] # mainGrad0[<<"first", 1>>]

Rank(e) ==
    CASE e = "zero_grad" -> 1
      [] e = "process_global_batch" -> 2
      [] e \in {"forward", "backward"} -> 3
      [] e = "allreduce_gradients" -> 4
      [] e = "allreduce_embedding" -> 5
      [] e = "broadcast" -> 6
      [] OTHER -> 7

\* how many of the first n events of stage s are e
CountBefore(s, n, e) == Cardinality({k \in 1 .. n : events[s][k] = e})

AllMicrobatches == 0 .. (numMicro - 1)

\* C23: on every process of a training step the events come in the order
\* zero_grad, process_global_batch, the forward and backward passes, the
\* bucketed all-reduce, the embedding all-reduce, the loss broadcast; gradients
\* are zeroed once, before the first pass, and every reduction, the broadcast
\* and the hooks come after the last backward pass; the backward and
\* optimizer_zero_grad hooks leave the gradients the step accumulated.
C23_StepOrder ==
    caller = "training_step" =>
       \A s \in Stages :
          /\ \A i, j \in 1 .. Len(events[s]) : i < j => Rank(events[s][i]) <= Rank(events[s][j])
          /\ Len(events[s]) >= 2 =>
                events[s][1] = "zero_grad" /\ events[s][2] = "process_global_batch"
          /\ \A e \in {"zero_grad", "process_global_batch", "allreduce_gradients",
                       "allreduce_embedding", "broadcast"} :
                CountBefore(s, Len(events[s]), e) <= 1
          /\ \A k \in 1 .. Len(events[s]) :
                Rank(events[s][k]) >= 4 =>
                   /\ CountBefore(s, k, "forward") = numMicro
                   /\ CountBefore(s, k, "backward") = numMicro
                   /\ gradBuf[s] = [stale |-> FALSE, acc |-> AllMicrobatches]
          /\ pc[s] = "done" =>
                /\ CountBefore(s, Len(events[s]), "broadcast") = 1
                /\ CountBefore(s, Len(events[s]), "allreduce_gradients") = (IF o2 THEN 0 ELSE 1)

\* the first of three stages has ended a step of two microbatches off the O2
\* path, and the trainer has called both hooks
C23_Witness ==
    /\ caller = "training_step"
    /\ numStages = 3
    /\ events[0] = <<"zero_grad", "process_global_batch", "forward", "forward",
                     "backward", "backward", "allreduce_gradients",
                     "allreduce_embedding", "broadcast", "optimizer_zero_grad",
                     "backward_hook">>
    /\ gradBuf[0] = [stale |-> FALSE, acc |-> {0, 1}]

\* C25: in pipelined mode every stage ends the step with no point-to-point
\* call left waiting for its neighbour (a call leaves todo only when the
\* neighbour's matching call completes it), for every number of stages above
\* one and every number of microbatches, in training and in forward-only mode.
C25_ScheduleDeadlockFree ==
    <>(Pipelined => (SchedDone /\ \A s \in Stages : todo[s] = << >>))

\* four stages have ended a training step of two microbatches
C25_Witness ==
    /\ SchedDone
    /\ caller = "training_step"
    /\ numStages = 4
    /\ numMicro = 2
    /\ Len(rcvdAct[3]) = 2
    /\ Len(rcvdGrad[0]) = 2

=============================================================================
